---- MODULE Spec2Model ----
(***************************************************************************)
(* The compile stage of the TextMate grammar compiler                      *)
(* (src/src/syntax_compiler/compile.rs): a parse::SyntaxDefinition is      *)
(* lowered into four arenas (rules, regexes, partial_regexes,              *)
(* repositories) by the mutually recursive compile_rule,                   *)
(* compile_repository, compile_captures and compile_patterns.  The         *)
(* recursion is modelled with an explicit call stack (frames); a HashMap   *)
(* is a function and its iteration order is a nondeterministic choice of   *)
(* the next entry.                                                         *)
(*                                                                         *)
(* Encodings.  Option<T>: None is <<>>, Some(v) is <<v>>.  Strings that    *)
(* the code inspects (include strings, capture keys) and scope names are   *)
(* sequences of one-character strings; regex sources and repository keys   *)
(* are opaque strings.                                                     *)
(***************************************************************************)
EXTENDS Integers, Sequences, FiniteSets, TLC

VARIABLES
    json,             \* the JSON document handed to from_json, None when compile is given a tree
    raw,              \* the parse::SyntaxDefinition handed to compile
    rules,            \* syntax.rules: Vec<Option<Rule>>
    regexes,          \* syntax.regexes
    partial_regexes,  \* syntax.partial_regexes
    repositories,     \* syntax.repositories: Vec<Option<Repository>>
    frames,           \* the call stack of the compile, innermost call last
    result,           \* what compile has returned: Running, Ok or an error
    calls,            \* history: the arguments of the compile_rule call that reserved slot i
    repo_calls        \* history: the arguments of the compile_repository call that reserved slot i

vars == <<json, raw, rules, regexes, partial_regexes, repositories, frames, result,
          calls, repo_calls>>

-----------------------------------------------------------------------------
(* Option<T> *)

None == <<>>

Some(v) == <<v>>

IsSome(o) == Len(o) = 1

IsNone(o) == Len(o) = 0

Unwrap(o) == o[1]

\* Option::flatten on Option<Option<T>>
Flatten(o) == IF IsSome(o) THEN o[1] ELSE None

Max(S) == CHOOSE m \in S : \A n \in S : n <= m

-----------------------------------------------------------------------------
(* Ids: NonZeroU16 / NonZeroU8 newtypes, 1-based *)

U16_MAX == 65535

U8_MAX == 255

\* to_idx: self.0.get() as usize - 1
to_idx(id) == id - 1

\* from_idx: idx + 1 narrowed to the id's integer type
from_idx(idx) == idx + 1

\* the unwrap()s of from_idx succeed: idx + 1 fits the integer type
from_idx_fits(idx, int_max) == idx + 1 <= int_max

-----------------------------------------------------------------------------
(* RepositoryStack *)

MAX_REPOSITORY_STACK_DEPTH == 4

\* RepositoryStack::empty(): Default::default()
RepositoryStack_empty ==
    [stack |-> [i \in 1..MAX_REPOSITORY_STACK_DEPTH |-> None], capacity |-> 0]

\* variant of push_ensure: a push that admits one entry more than the array holds
push_ensure_off_by_one(self) == self.capacity <= MAX_REPOSITORY_STACK_DEPTH

\* the ensure! of RepositoryStack::push
push_ensure(self) == self.capacity < MAX_REPOSITORY_STACK_DEPTH

\* variant of RepositoryStack_push: the id is written but capacity is not advanced
RepositoryStack_push_no_grow(self, repository_id) ==
    [stack |-> [self.stack EXCEPT ![self.capacity + 1] = Some(repository_id)],
     capacity |-> self.capacity]

\* RepositoryStack::push after the ensure!: array index capacity (0-based) is written
RepositoryStack_push(self, repository_id) ==
    [stack |-> [self.stack EXCEPT ![self.capacity + 1] = Some(repository_id)],
     capacity |-> self.capacity + 1]

-----------------------------------------------------------------------------
(* parse::Rule: the wide record of optional fields, and its Default *)

DefaultRule ==
    [include |-> None, name |-> None, content_name |-> None,
     match_ |-> None, captures |-> None,
     begin |-> None, begin_captures |-> None,
     end |-> None, end_captures |-> None,
     while_ |-> None, while_captures |-> None,
     patterns |-> None, repository |-> None,
     apply_end_pattern_last |-> None]

-----------------------------------------------------------------------------
(* Reference parsing: impl From<&parse::IncludeString> for Reference *)

BASE == <<"$", "b", "a", "s", "e">>

SELF == <<"$", "s", "e", "l", "f">>

starts_with_hash(s) == Len(s) > 0 /\ s[1] = "#"

contains_hash(s) == \E i \in 1..Len(s) : s[i] = "#"

\* variant of split_once: a split at the last '#' instead of the first
split_once_last(s) ==
    LET i == Max({j \in 1..Len(s) : s[j] = "#"})
    IN  <<SubSeq(s, 1, i - 1), SubSeq(s, i + 1, Len(s))>>

\* str::split_once('#'): the text before and after the first '#'
split_once(s) ==
    LET i == CHOOSE j \in 1..Len(s) :
                 s[j] = "#" /\ \A k \in 1..(j - 1) : s[k] # "#"
    IN  <<SubSeq(s, 1, i - 1), SubSeq(s, i + 1, Len(s))>>

\* the compiled Reference variants (scope/rule are <<>> where the variant has no such field)
Reference(tag, scope, rule) == [tag |-> tag, scope |-> scope, rule |-> rule]

\* variant of Reference_from: a parse that tests for a '#' inside the string before the leading '#'
Reference_from_contains_first(s) ==
    IF s = BASE THEN Reference("Base", None, None)
    ELSE IF s = SELF THEN Reference("Self_", None, None)
    ELSE IF contains_hash(s) /\ ~starts_with_hash(s) THEN
        LET p == split_once(s)
        IN  Reference("TopLevelRepository", Some(p[1]), Some(p[2]))
    ELSE IF contains_hash(s) THEN Reference("TopLevel", Some(s), None)
    ELSE Reference("TopLevel", Some(s), None)

Reference_from(s) ==
    IF s = BASE THEN Reference("Base", None, None)
    ELSE IF s = SELF THEN Reference("Self_", None, None)
    ELSE IF starts_with_hash(s) THEN
        Reference("Relative", None, Some(SubSeq(s, 2, Len(s))))
    ELSE IF contains_hash(s) THEN
        LET p == split_once(s)
        IN  Reference("TopLevelRepository", Some(p[1]), Some(p[2]))
    ELSE Reference("TopLevel", Some(s), None)

-----------------------------------------------------------------------------
(* key.parse::<usize>(): an optional '+', then one or more ASCII digits *)

Digits == {"0", "1", "2", "3", "4", "5", "6", "7", "8", "9"}

DigitValue(c) ==
    CASE c = "0" -> 0 [] c = "1" -> 1 [] c = "2" -> 2 [] c = "3" -> 3
      [] c = "4" -> 4 [] c = "5" -> 5 [] c = "6" -> 6 [] c = "7" -> 7
      [] c = "8" -> 8 [] c = "9" -> 9

RECURSIVE DecimalValue(_)
DecimalValue(ds) ==
    IF ds = <<>> THEN 0
    ELSE 10 * DecimalValue(SubSeq(ds, 1, Len(ds) - 1)) + DigitValue(ds[Len(ds)])

\* the digits left after the optional sign (a lone "+" is not a sign)
StripSign(key) == IF Len(key) > 1 /\ key[1] = "+" THEN Tail(key) ELSE key

\* variant of parse_usize: a parse that reads an unparseable key as 0, as the sizing pass does
parse_usize_or_0(key) ==
    LET ds == StripSign(key)
    IN  IF ds # <<>> /\ \A i \in 1..Len(ds) : ds[i] \in Digits
        THEN Some(DecimalValue(ds))
        ELSE Some(0)

\* Ok(n) is Some(n), Err(ParseIntError) is None.  Keys of the model are far
\* shorter than the 20 digits at which usize overflows.
parse_usize(key) ==
    LET ds == StripSign(key)
    IN  IF ds # <<>> /\ \A i \in 1..Len(ds) : ds[i] \in Digits
        THEN Some(DecimalValue(ds))
        ELSE None

\* k.parse::<usize>().unwrap_or(0)
unwrap_or_0(o) == IF IsSome(o) THEN Unwrap(o) ELSE 0

\* variant of max_capture_of: a maximum one short of what the vector has to hold
max_capture_of_off_by_one(raw_captures) ==
    IF DOMAIN raw_captures = {} THEN None
    ELSE Some(Max({unwrap_or_0(parse_usize(k)) : k \in DOMAIN raw_captures}) + 1)

\* raw_captures.0.keys().map(|k| k.parse::<usize>().unwrap_or(0)).max()
max_capture_of(raw_captures) ==
    IF DOMAIN raw_captures = {} THEN None
    ELSE Some(Max({unwrap_or_0(parse_usize(k)) : k \in DOMAIN raw_captures}))

-----------------------------------------------------------------------------
(* compile_rule: the branch taken and the order in which the fields of the
   chosen struct literal are evaluated *)

\* variant of rule_kind: a classification that tests begin before match
rule_kind_begin_first(raw_rule) ==
    IF IsSome(raw_rule.begin) THEN
        IF IsSome(raw_rule.while_) THEN "BeginWhileRule" ELSE "BeginEndRule"
    ELSE IF IsSome(raw_rule.match_) THEN "MatchRule"
    ELSE "IncludeOnly"

rule_kind(raw_rule) ==
    IF IsSome(raw_rule.match_) THEN "MatchRule"
    ELSE IF IsSome(raw_rule.begin) THEN
        IF IsSome(raw_rule.while_) THEN "BeginWhileRule" ELSE "BeginEndRule"
    ELSE "IncludeOnly"

Step(op, field) == [op |-> op, field |-> field]

\* variant of plan: a match rule opens its repository block as well
plan_match_repository(kind) ==
    CASE kind = "MatchRule" ->
            <<Step("regex", "match_"), Step("captures", "captures"),
              Step("repository", "repository"), Step("push", "repository")>>
      [] kind = "BeginWhileRule" ->
            <<Step("regex", "begin"), Step("captures", "begin_captures"),
              Step("partial", "while_"), Step("captures", "while_captures"),
              Step("patterns", "patterns")>>
      [] kind = "BeginEndRule" ->
            <<Step("regex", "begin"), Step("captures", "begin_captures"),
              Step("opt_partial", "end"), Step("captures", "end_captures"),
              Step("patterns", "patterns")>>
      [] kind = "IncludeOnly" ->
            <<Step("repository", "repository"), Step("push", "repository"),
              Step("include_patterns", "patterns")>>

\* variant of plan: an include-only rule compiles its patterns before its repository
plan_patterns_first(kind) ==
    CASE kind = "MatchRule" ->
            <<Step("regex", "match_"), Step("captures", "captures")>>
      [] kind = "BeginWhileRule" ->
            <<Step("regex", "begin"), Step("captures", "begin_captures"),
              Step("partial", "while_"), Step("captures", "while_captures"),
              Step("patterns", "patterns")>>
      [] kind = "BeginEndRule" ->
            <<Step("regex", "begin"), Step("captures", "begin_captures"),
              Step("opt_partial", "end"), Step("captures", "end_captures"),
              Step("patterns", "patterns")>>
      [] kind = "IncludeOnly" ->
            <<Step("include_patterns", "patterns"),
              Step("repository", "repository"), Step("push", "repository")>>

plan(kind) ==
    CASE kind = "MatchRule" ->
            <<Step("regex", "match_"), Step("captures", "captures")>>
      [] kind = "BeginWhileRule" ->
            <<Step("regex", "begin"), Step("captures", "begin_captures"),
              Step("partial", "while_"), Step("captures", "while_captures"),
              Step("patterns", "patterns")>>
      [] kind = "BeginEndRule" ->
            <<Step("regex", "begin"), Step("captures", "begin_captures"),
              Step("opt_partial", "end"), Step("captures", "end_captures"),
              Step("patterns", "patterns")>>
      [] kind = "IncludeOnly" ->
            <<Step("repository", "repository"), Step("push", "repository"),
              Step("include_patterns", "patterns")>>

\* variant of pattern_list: an empty `patterns` gives way to `include`
pattern_list_skip_empty(raw_rule) ==
    IF IsSome(raw_rule.patterns) /\ Unwrap(raw_rule.patterns) # <<>>
    THEN raw_rule.patterns
    ELSE IF IsSome(raw_rule.include)
         THEN Some(<<[DefaultRule EXCEPT !.include = raw_rule.include]>>)
         ELSE raw_rule.patterns

\* raw_rule.patterns.or_else(|| raw_rule.include.map(|include| vec![Rule { include, .. }]))
pattern_list(raw_rule) ==
    IF IsSome(raw_rule.patterns) THEN raw_rule.patterns
    ELSE IF IsSome(raw_rule.include)
         THEN Some(<<[DefaultRule EXCEPT !.include = raw_rule.include]>>)
         ELSE None

\* variant of has_patterns: a guard that accepts an empty pattern list
has_patterns_some(patterns) == IsSome(patterns)

\* the guard `Some(patterns) if !patterns.is_empty()`
has_patterns(patterns) == IsSome(patterns) /\ Unwrap(patterns) # <<>>

\* variant of has_include: an include test that gives way to match and begin
has_include_alone(raw_rule) ==
    IsSome(raw_rule.include) /\ IsNone(raw_rule.match_) /\ IsNone(raw_rule.begin)

\* `if let Some(include) = raw_rule.include` of compile_patterns
has_include(raw_rule) == IsSome(raw_rule.include)

\* raw_rule.apply_end_pattern_last.unwrap_or(false)
unwrap_or_false(o) == IF IsSome(o) THEN Unwrap(o) ELSE FALSE

\* variant of root_rule: a root rule that drops the grammar's repository
root_rule_without_repository(raw_syntax) ==
    [DefaultRule EXCEPT !.patterns = Some(raw_syntax.patterns)]

\* the root rule synthesized by compile
root_rule(raw_syntax) ==
    [DefaultRule EXCEPT !.patterns = Some(raw_syntax.patterns),
                        !.repository = raw_syntax.repository]

\* the Rule value a finished compile_rule call stores in its slot
build_rule(f) ==
    CASE f.tag = "MatchRule" ->
            [tag |-> "MatchRule", id |-> f.new_id, name |-> f.raw_rule.name,
             repository_stack |-> f.repository_stack,
             match_ |-> f.vals.match_, captures |-> f.vals.captures]
      [] f.tag = "BeginWhileRule" ->
            [tag |-> "BeginWhileRule", id |-> f.new_id, name |-> f.raw_rule.name,
             repository_stack |-> f.repository_stack,
             content_name |-> f.raw_rule.content_name,
             begin |-> f.vals.begin, begin_captures |-> f.vals.begin_captures,
             while_ |-> f.vals.while_, while_captures |-> f.vals.while_captures,
             patterns |-> f.vals.patterns]
      [] f.tag = "BeginEndRule" ->
            [tag |-> "BeginEndRule", id |-> f.new_id, name |-> f.raw_rule.name,
             repository_stack |-> f.repository_stack,
             content_name |-> f.raw_rule.content_name,
             begin |-> f.vals.begin, begin_captures |-> f.vals.begin_captures,
             end |-> f.vals.end, end_captures |-> f.vals.end_captures,
             apply_end_pattern_last |->
                 unwrap_or_false(f.raw_rule.apply_end_pattern_last),
             patterns |-> f.vals.patterns]
      [] f.tag = "IncludeOnlyRule" ->
            [tag |-> "IncludeOnlyRule", id |-> f.new_id, name |-> f.raw_rule.name,
             repository_stack |-> f.repository_stack,
             content_name |-> f.raw_rule.content_name,
             patterns |-> f.vals.patterns]
      [] f.tag = "NoopRule" -> [tag |-> "NoopRule"]

\* RuleIdOrReference
RuleIdOrReference_RuleId(rule_id) ==
    [tag |-> "RuleId", rule_id |-> Some(rule_id), reference |-> None]

RuleIdOrReference_Reference(reference) ==
    [tag |-> "Reference", rule_id |-> None, reference |-> Some(reference)]

-----------------------------------------------------------------------------
(* Call frames *)

compile_frame == [fn |-> "compile", pc |-> "call", root_rule_id |-> 0]

compile_rule_frame(repository_stack, raw_rule) ==
    [fn |-> "compile_rule", pc |-> "start",
     repository_stack |-> repository_stack, raw_rule |-> raw_rule,
     new_id |-> 0, tag |-> "", todo |-> <<>>, vals |-> <<>>,
     new_repository_id |-> 0]

compile_repository_frame(new_id, new_repository_stack, raw_repository) ==
    [fn |-> "compile_repository", pc |-> "loop",
     new_id |-> new_id, new_repository_stack |-> new_repository_stack,
     raw_repository |-> raw_repository,
     remaining |-> DOMAIN raw_repository, name |-> "", repository |-> <<>>]

compile_captures_frame(repository_stack, raw_captures, max_capture) ==
    [fn |-> "compile_captures", pc |-> "loop",
     repository_stack |-> repository_stack, raw_captures |-> raw_captures,
     captures |-> [i \in 1..(max_capture + 1) |-> None],
     remaining |-> DOMAIN raw_captures, idx |-> 0]

compile_patterns_frame(repository_stack, raw_patterns) ==
    [fn |-> "compile_patterns", pc |-> "loop",
     repository_stack |-> repository_stack, raw_patterns |-> raw_patterns,
     out |-> <<>>]

Top == frames[Len(frames)]

InCall(fn) == result.status = "Running" /\ frames # <<>> /\ Top.fn = fn

InBody(op) ==
    /\ InCall("compile_rule")
    /\ Top.pc = "body"
    /\ Top.todo # <<>>
    /\ Head(Top.todo).op = op

SetTop(f) == [frames EXCEPT ![Len(frames)] = f]

\* the caller's frame once the call it was waiting for has returned v
Resume(caller, v) ==
    CASE caller.fn = "compile" ->
            [caller EXCEPT !.root_rule_id = v, !.pc = "ret"]
      [] caller.fn = "compile_repository" ->
            [caller EXCEPT !.repository = @ @@ (caller.name :> v)]
      [] caller.fn = "compile_captures" ->
            [caller EXCEPT !.captures[caller.idx + 1] = Some(v)]
      [] caller.fn = "compile_patterns" ->
            [caller EXCEPT !.out = Append(@, RuleIdOrReference_RuleId(v))]
      [] caller.fn = "compile_rule" ->
            LET step == Head(caller.todo)
            IN  CASE step.op = "captures" ->
                        [caller EXCEPT !.vals = @ @@ (step.field :> Flatten(Some(v))),
                                       !.todo = Tail(@)]
                  [] step.op = "patterns" ->
                        [caller EXCEPT !.vals = @ @@ ("patterns" :> Some(v)),
                                       !.todo = Tail(@)]
                  [] step.op = "include_patterns" ->
                        [caller EXCEPT !.vals = @ @@ ("patterns" :> v),
                                       !.tag = "IncludeOnlyRule",
                                       !.todo = Tail(@)]
                  [] step.op = "repository" ->
                        [caller EXCEPT !.new_repository_id = v, !.todo = Tail(@)]

\* the call stack after the innermost call has returned Ok(v)
Return(v) ==
    LET n == Len(frames)
    IN  [SubSeq(frames, 1, n - 1) EXCEPT ![n - 1] = Resume(frames[n - 1], v)]

Outcome(status, error, index) == [status |-> status, error |-> error, index |-> index]

RepositoryStackOverflow == Outcome("Err", "RepositoryStackOverflow", None)

UnparseableCaptureIndex(index) == Outcome("Err", "UnparseableCaptureIndex", Some(index))

Panic == Outcome("Panic", "", None)

\* compile returns without a value (an Err propagated by `?`, or a panic):
\* every frame is left and the local `syntax` is dropped
Abort(outcome) ==
    /\ result' = outcome
    /\ frames' = <<>>
    /\ rules' = <<>>
    /\ regexes' = <<>>
    /\ partial_regexes' = <<>>
    /\ repositories' = <<>>
    /\ UNCHANGED <<json, raw, calls, repo_calls>>

-----------------------------------------------------------------------------
(* Actions *)

\* SyntaxDefinition::compile: the empty syntax exists; call compile_rule on the root rule
compile ==
    /\ result.status = "NotStarted"
    /\ result' = Outcome("Running", "", None)
    /\ frames' = <<compile_frame,
                   compile_rule_frame(RepositoryStack_empty, root_rule(raw))>>
    /\ UNCHANGED <<json, raw, rules, regexes, partial_regexes, repositories,
                   calls, repo_calls>>

\* compile_rule, entry: take the next RuleId, reserve its slot, choose the branch
compile_rule ==
    /\ InCall("compile_rule")
    /\ Top.pc = "start"
    /\ IF ~from_idx_fits(Len(rules), U16_MAX) THEN Abort(Panic)
       ELSE /\ rules' = Append(rules, None)
            /\ calls' = Append(calls, [raw_rule |-> Top.raw_rule,
                                       repository_stack |-> Top.repository_stack])
            /\ frames' = SetTop([Top EXCEPT !.pc = "body",
                                            !.new_id = from_idx(Len(rules)),
                                            !.tag = rule_kind(Top.raw_rule),
                                            !.todo = plan(rule_kind(Top.raw_rule))])
            /\ UNCHANGED <<json, raw, regexes, partial_regexes, repositories,
                           result, repo_calls>>

\* compile_regex on `match` or `begin`
compile_regex ==
    /\ InBody("regex")
    /\ LET field == Head(Top.todo).field
       IN  IF ~from_idx_fits(Len(regexes), U16_MAX) THEN Abort(Panic)
           ELSE /\ regexes' = Append(regexes, Unwrap(Top.raw_rule[field]))
                /\ frames' = SetTop([Top EXCEPT
                       !.vals = @ @@ (field :> from_idx(Len(regexes))),
                       !.todo = Tail(@)])
                /\ UNCHANGED <<json, raw, rules, partial_regexes, repositories,
                               result, calls, repo_calls>>

\* compile_partial_regex on `while`, and on `end` when it is present
compile_partial_regex ==
    /\ InCall("compile_rule")
    /\ Top.pc = "body"
    /\ Top.todo # <<>>
    /\ Head(Top.todo).op \in {"partial", "opt_partial"}
    /\ LET step == Head(Top.todo)
           new_id == from_idx(Len(partial_regexes))
       IN  IF step.op = "opt_partial" /\ IsNone(Top.raw_rule[step.field]) THEN
               /\ frames' = SetTop([Top EXCEPT
                      !.vals = @ @@ (step.field :> None),
                      !.todo = Tail(@)])
               /\ UNCHANGED <<json, raw, rules, regexes, partial_regexes, repositories,
                              result, calls, repo_calls>>
           ELSE IF ~from_idx_fits(Len(partial_regexes), U16_MAX) THEN Abort(Panic)
           ELSE /\ partial_regexes' =
                       Append(partial_regexes, Unwrap(Top.raw_rule[step.field]))
                /\ frames' = SetTop([Top EXCEPT
                       !.vals = @ @@ (step.field :>
                           IF step.op = "partial" THEN new_id ELSE Some(new_id)),
                       !.todo = Tail(@)])
                /\ UNCHANGED <<json, raw, rules, regexes, repositories,
                               result, calls, repo_calls>>

\* raw_rule.<captures>.map(|c| self.compile_captures(..)), up to the loop of
\* compile_captures: an absent field and a map without keys both give None
compile_captures ==
    /\ InBody("captures")
    /\ LET field == Head(Top.todo).field
           raw_captures == Top.raw_rule[field]
           max_capture == max_capture_of(Unwrap(raw_captures))
       IN  IF IsNone(raw_captures) \/ IsNone(max_capture) THEN
               frames' = SetTop([Top EXCEPT !.vals = @ @@ (field :> None),
                                            !.todo = Tail(@)])
           ELSE
               frames' = Append(frames,
                   compile_captures_frame(Top.repository_stack, Unwrap(raw_captures),
                                          Unwrap(max_capture)))
    /\ UNCHANGED <<json, raw, rules, regexes, partial_regexes, repositories,
                   result, calls, repo_calls>>

\* one iteration of the loop of compile_captures: parse the key, compile its rule
compile_captures_next ==
    /\ InCall("compile_captures")
    /\ \E key \in Top.remaining :
          LET idx == parse_usize(key)
          IN  IF IsNone(idx) THEN Abort(UnparseableCaptureIndex(key))
              ELSE /\ frames' = Append(
                          SetTop([Top EXCEPT !.remaining = @ \ {key},
                                             !.idx = Unwrap(idx)]),
                          compile_rule_frame(Top.repository_stack,
                                             Top.raw_captures[key]))
                   /\ UNCHANGED <<json, raw, rules, regexes, partial_regexes,
                                  repositories, result, calls, repo_calls>>

\* compile_captures returns Ok(Some(Captures(captures)))
compile_captures_return ==
    /\ InCall("compile_captures")
    /\ Top.remaining = {}
    /\ frames' = Return(Some(Top.captures))
    /\ UNCHANGED <<json, raw, rules, regexes, partial_regexes, repositories,
                   result, calls, repo_calls>>

\* raw_rule.patterns.map(|p| self.compile_patterns(..)) of a begin rule
compile_patterns ==
    /\ InBody("patterns")
    /\ IF IsNone(Top.raw_rule.patterns) THEN
           frames' = SetTop([Top EXCEPT !.vals = @ @@ ("patterns" :> None),
                                        !.todo = Tail(@)])
       ELSE
           frames' = Append(frames,
               compile_patterns_frame(Top.repository_stack,
                                      Unwrap(Top.raw_rule.patterns)))
    /\ UNCHANGED <<json, raw, rules, regexes, partial_regexes, repositories,
                   result, calls, repo_calls>>

\* the pattern list of a rule without match and begin: IncludeOnlyRule or NoopRule
compile_rule_include_only ==
    /\ InBody("include_patterns")
    /\ LET patterns == pattern_list(Top.raw_rule)
       IN  IF has_patterns(patterns) THEN
               frames' = Append(frames,
                   compile_patterns_frame(Top.repository_stack, Unwrap(patterns)))
           ELSE
               frames' = SetTop([Top EXCEPT !.tag = "NoopRule", !.todo = Tail(@)])
    /\ UNCHANGED <<json, raw, rules, regexes, partial_regexes, repositories,
                   result, calls, repo_calls>>

\* one element of compile_patterns: a Reference for an include, else compile_rule
compile_patterns_next ==
    /\ InCall("compile_patterns")
    /\ Len(Top.out) < Len(Top.raw_patterns)
    /\ LET raw_rule == Top.raw_patterns[Len(Top.out) + 1]
       IN  IF has_include(raw_rule) THEN
               frames' = SetTop([Top EXCEPT !.out = Append(@,
                   RuleIdOrReference_Reference(
                       Reference_from(Unwrap(raw_rule.include))))])
           ELSE
               frames' = Append(frames,
                   compile_rule_frame(Top.repository_stack, raw_rule))
    /\ UNCHANGED <<json, raw, rules, regexes, partial_regexes, repositories,
                   result, calls, repo_calls>>

\* compile_patterns returns the collected Vec
compile_patterns_return ==
    /\ InCall("compile_patterns")
    /\ Len(Top.out) = Len(Top.raw_patterns)
    /\ frames' = Return(Top.out)
    /\ UNCHANGED <<json, raw, rules, regexes, partial_regexes, repositories,
                   result, calls, repo_calls>>

\* `if let Some(raw_repository) = raw_rule.repository`, and compile_repository
\* up to its loop: take the next RepositoryId, reserve its slot, push it
compile_repository ==
    /\ InBody("repository")
    /\ IF IsNone(Top.raw_rule.repository) THEN
           /\ frames' = SetTop([Top EXCEPT !.todo = Tail(Tail(@))])
           /\ UNCHANGED <<json, raw, rules, regexes, partial_regexes, repositories,
                          result, calls, repo_calls>>
       ELSE IF ~from_idx_fits(Len(repositories), U8_MAX) THEN Abort(Panic)
       ELSE IF ~push_ensure(Top.repository_stack) THEN Abort(RepositoryStackOverflow)
       ELSE LET new_id == from_idx(Len(repositories))
                raw_repository == Unwrap(Top.raw_rule.repository)
            IN  /\ repositories' = Append(repositories, None)
                /\ repo_calls' = Append(repo_calls,
                       [raw_repository |-> raw_repository,
                        repository_stack |-> Top.repository_stack,
                        owner |-> Top.new_id])
                /\ frames' = Append(frames,
                       compile_repository_frame(new_id,
                           RepositoryStack_push(Top.repository_stack, new_id),
                           raw_repository))
                /\ UNCHANGED <<json, raw, rules, regexes, partial_regexes,
                               result, calls>>

\* one entry of the repository map, in HashMap order
compile_repository_next ==
    /\ InCall("compile_repository")
    /\ \E name \in Top.remaining :
          frames' = Append(
              SetTop([Top EXCEPT !.remaining = @ \ {name}, !.name = name]),
              compile_rule_frame(Top.new_repository_stack,
                                 Top.raw_repository[name]))
    /\ UNCHANGED <<json, raw, rules, regexes, partial_regexes, repositories,
                   result, calls, repo_calls>>

\* compile_repository fills its slot and returns its id
compile_repository_return ==
    /\ InCall("compile_repository")
    /\ Top.remaining = {}
    /\ repositories' = [repositories EXCEPT ![to_idx(Top.new_id) + 1] =
                            Some([rules |-> Top.repository])]
    /\ frames' = Return(Top.new_id)
    /\ UNCHANGED <<json, raw, rules, regexes, partial_regexes, result, calls, repo_calls>>

\* repository_stack.push(new_repository_id)? in compile_rule
repository_stack_push ==
    /\ InBody("push")
    /\ IF ~push_ensure(Top.repository_stack) THEN Abort(RepositoryStackOverflow)
       ELSE /\ frames' = SetTop([Top EXCEPT
                   !.repository_stack =
                       RepositoryStack_push(@, Top.new_repository_id),
                   !.todo = Tail(@)])
            /\ UNCHANGED <<json, raw, rules, regexes, partial_regexes, repositories,
                           result, calls, repo_calls>>

\* variant of install_rule: an install that leaves the slot of a NoopRule reserved
install_rule_unless_noop(arena, f) ==
    IF f.tag = "NoopRule" THEN arena
    ELSE [arena EXCEPT ![to_idx(f.new_id) + 1] = Some(build_rule(f))]

\* self.rules[new_id.to_idx()] = Some(rule); Ok(new_id)
install_rule(arena, f) == [arena EXCEPT ![to_idx(f.new_id) + 1] = Some(build_rule(f))]

compile_rule_install ==
    /\ InCall("compile_rule")
    /\ Top.pc = "body"
    /\ Top.todo = <<>>
    /\ rules' = install_rule(rules, Top)
    /\ frames' = Return(Top.new_id)
    /\ UNCHANGED <<json, raw, regexes, partial_regexes, repositories,
                   result, calls, repo_calls>>

\* assert_eq!(root_rule_id, RuleId::from_idx(0)); Ok(syntax)
compile_return ==
    /\ InCall("compile")
    /\ Top.pc = "ret"
    /\ IF Top.root_rule_id # from_idx(0) THEN Abort(Panic)
       ELSE /\ result' = Outcome("Ok", "", None)
            /\ frames' = <<>>
            /\ UNCHANGED <<json, raw, rules, regexes, partial_regexes, repositories,
                           calls, repo_calls>>

Next ==
    \/ compile
    \/ compile_rule
    \/ compile_regex
    \/ compile_partial_regex
    \/ compile_captures
    \/ compile_captures_next
    \/ compile_captures_return
    \/ compile_patterns
    \/ compile_rule_include_only
    \/ compile_patterns_next
    \/ compile_patterns_return
    \/ compile_repository
    \/ compile_repository_next
    \/ compile_repository_return
    \/ repository_stack_push
    \/ compile_rule_install
    \/ compile_return

-----------------------------------------------------------------------------
(* The grammars compiled *)

MaxNest == 5

MaxPatterns == 2

MaxCaptureKeys == 2

MaxIncludeLen == 3

Syntax(patterns, repository) == [patterns |-> patterns, repository |-> repository]

Include(s) == [DefaultRule EXCEPT !.include = Some(s)]

Match(re) == [DefaultRule EXCEPT !.match_ = Some(re)]

Named(name) == [DefaultRule EXCEPT !.name = Some(name)]

\* tests::can_compile_simple_syntax
SimpleSyntax ==
    Syntax(<<Include(<<"#", "d", "i", "g", "i", "t", "s">>),
             Include(<<"#", "w", "h", "i", "t", "e", "s", "p", "a", "c", "e">>)>>,
           Some([digits |->
                    [DefaultRule EXCEPT !.match_ = Some("\\d+"),
                                        !.name = Some(<<"d", "i", "g", "i", "t", "s">>)],
                 whitespace |->
                    [DefaultRule EXCEPT !.begin = Some("\\s"), !.end = Some("\\S"),
                                        !.name = Some(<<"w", "h", "i", "t", "e", "s", "p", "a", "c", "e">>)]]))

\* ABC_TMLANG of lib.rs
AbcSyntax ==
    Syntax(<<Include(<<"#", "e">>)>>,
           Some([expression |->
                    [DefaultRule EXCEPT !.patterns =
                        Some(<<Include(<<"#", "l">>), Include(<<"#", "p">>)>>)],
                 letter |->
                    [DefaultRule EXCEPT !.match_ = Some("a|b|c"),
                                        !.name = Some(<<"k">>)],
                 paren |->
                    [DefaultRule EXCEPT
                        !.begin = Some("\\("), !.end = Some("\\)"),
                        !.begin_captures = Some(<<"0">> :> Named(<<"o">>)),
                        !.end_captures = Some(<<"0">> :> Named(<<"c">>)),
                        !.name = Some(<<"g">>),
                        !.patterns = Some(<<Include(<<"#", "e">>)>>)]]))

\* every combination of present and absent fields of one rule
ShapeRules ==
    {[DefaultRule EXCEPT
         !.match_ = m, !.begin = b, !.while_ = w, !.end = e, !.include = i,
         !.patterns = p, !.repository = r,
         !.captures = c, !.begin_captures = c, !.end_captures = c,
         !.while_captures = c,
         !.name = x, !.content_name = x, !.apply_end_pattern_last = a] :
       m \in {None, Some("m")}, b \in {None, Some("b")},
       w \in {None, Some("w")}, e \in {None, Some("e")},
       i \in {None, Some(<<"#", "x">>)},
       p \in {None, Some(<<>>), Some(<<Match("p")>>)},
       r \in {None, Some([x |-> Match("r")])},
       c \in {None, Some(<<"1">> :> Named(<<"c">>))},
       x \in {None, Some(<<"n">>)},
       a \in {None, Some(TRUE)}}

\* a shape as a repository entry, and as an element of a pattern list
ShapeSyntaxes ==
    {Syntax(<<>>, Some([r |-> rule])) : rule \in ShapeRules}
        \cup {Syntax(<<rule>>, None) : rule \in ShapeRules}

\* nested repository blocks: level by level the owner of the next block is an
\* entry of the block above ("entry"), an element of the pattern list of the
\* rule owning the block above ("pattern"), or a match rule ("match")
NestKinds == {"entry", "pattern", "match"}

RECURSIVE Tower(_)
Tower(kinds) ==
    IF kinds = <<>> THEN Match("t")
    ELSE CASE Head(kinds) = "entry" ->
                [DefaultRule EXCEPT
                    !.repository = Some([n |-> Tower(Tail(kinds))]),
                    !.patterns = Some(<<Include(<<"#", "n">>)>>)]
           [] Head(kinds) = "pattern" ->
                [DefaultRule EXCEPT
                    !.repository = Some([n |-> Match("n")]),
                    !.patterns = Some(<<Tower(Tail(kinds))>>)]
           [] Head(kinds) = "match" ->
                [DefaultRule EXCEPT
                    !.match_ = Some("m"),
                    !.repository = Some([n |-> Tower(Tail(kinds))])]

NestSyntaxes ==
    {Syntax(<<Tower(kinds)>>, None) :
        kinds \in UNION {[1..d -> NestKinds] : d \in 0..MaxNest}}

\* capture maps: up to MaxCaptureKeys of these keys
CaptureKeys ==
    {<<"0">>, <<"1">>, <<"2">>, <<"0", "1">>, <<"+", "1">>, <<"1", "0">>,
     <<>>, <<"x">>, <<"+">>, <<"1", "x">>, <<"-", "1">>}

CaptureMaps ==
    {[k \in K |-> Named(k)] :
        K \in {K \in SUBSET CaptureKeys : Cardinality(K) <= MaxCaptureKeys}}

CaptureSyntaxes ==
    {Syntax(<<[DefaultRule EXCEPT !.match_ = Some("m"), !.captures = Some(c)]>>, None) :
        c \in CaptureMaps}

\* pattern lists of up to MaxPatterns of these elements
PatternElements ==
    {Include(<<"#", "x">>), Include(SELF), Match("a"),
     [DefaultRule EXCEPT !.include = Some(<<"#", "x">>), !.match_ = Some("foo")],
     [DefaultRule EXCEPT !.begin = Some("b"), !.end = Some("e"),
                         !.patterns = Some(<<Include(BASE), Match("c")>>)],
     DefaultRule}

PatternSyntaxes ==
    {Syntax(patterns, None) :
        patterns \in UNION {[1..n -> PatternElements] : n \in 0..MaxPatterns}}

\* captures whose rules own repositories, carry captures of their own or fail
MixedSyntaxes ==
    {Syntax(<<[DefaultRule EXCEPT
                 !.begin = Some("b"), !.while_ = Some("w"),
                 !.begin_captures = Some(
                     (<<"0">> :> [DefaultRule EXCEPT
                                     !.match_ = Some("i"),
                                     !.captures = Some(<<"x">> :> Named(<<"x">>))])
                     @@ (<<"y">> :> Named(<<"y">>))),
                 !.while_captures = Some(<<"2">> :>
                     [DefaultRule EXCEPT
                         !.repository = Some([q |-> Match("q")]),
                         !.patterns = Some(<<Include(<<"#", "q">>)>>)])]>>,
            None),
     Syntax(<<[DefaultRule EXCEPT
                 !.begin = Some("b"),
                 !.end_captures = Some(
                     (<<"1">> :> [DefaultRule EXCEPT
                                     !.repository = Some([q |-> Match("q")]),
                                     !.patterns = Some(<<Match("r")>>)])
                     @@ (<<"0", "1">> :> Match("s"))),
                 !.patterns = Some(<<Include(<<"s", "#", "r">>)>>)]>>,
            Some([a |-> [DefaultRule EXCEPT !.include = Some(<<"s">>)],
                  b |-> [DefaultRule EXCEPT !.patterns = Some(<<>>),
                                            !.include = Some(<<"s">>)]])),
     Syntax(<<>>,
            Some([a |-> [DefaultRule EXCEPT
                            !.match_ = Some("m"),
                            !.captures = Some(<<"x">> :> Named(<<"x">>))],
                  b |-> Tower(<<"entry", "pattern", "entry", "entry">>)]))}

Syntaxes ==
    {SimpleSyntax, AbcSyntax} \cup ShapeSyntaxes \cup NestSyntaxes
        \cup CaptureSyntaxes \cup PatternSyntaxes \cup MixedSyntaxes

Init ==
    /\ json = None
    /\ raw \in Syntaxes
    /\ rules = <<>>
    /\ regexes = <<>>
    /\ partial_regexes = <<>>
    /\ repositories = <<>>
    /\ frames = <<>>
    /\ result = Outcome("NotStarted", "", None)
    /\ calls = <<>>
    /\ repo_calls = <<>>

Spec == Init /\ [][Next]_vars

-----------------------------------------------------------------------------
(* Include strings: the compile of grammars whose root patterns are two     *)
(* include references, over every short include string                      *)

IncludeAlphabet == {"#", "a", "b"}

IncludeStrings ==
    UNION {[1..n -> IncludeAlphabet] : n \in 0..MaxIncludeLen}
        \cup {BASE, SELF, BASE \o <<"#", "a">>, <<"#">> \o SELF,
              SELF \o <<"#">>, BASE \o <<"a">>}

IncludeSyntaxes ==
    {Syntax(<<Include(s1), Include(s2)>>, None) : s1, s2 \in IncludeStrings}

InitRef ==
    /\ json = None
    /\ raw \in IncludeSyntaxes
    /\ rules = <<>>
    /\ regexes = <<>>
    /\ partial_regexes = <<>>
    /\ repositories = <<>>
    /\ frames = <<>>
    /\ result = Outcome("NotStarted", "", None)
    /\ calls = <<>>
    /\ repo_calls = <<>>

NextRef ==
    \/ compile
    \/ compile_rule
    \/ compile_repository
    \/ compile_rule_include_only
    \/ compile_patterns_next
    \/ compile_patterns_return
    \/ compile_rule_install
    \/ compile_return

SpecRef == InitRef /\ [][NextRef]_vars

-----------------------------------------------------------------------------
(* The parse stage: parse::SyntaxDefinition::from_json.  A JSON object is a  *)
(* record under its JSON keys; a value that the decoder accepts in several   *)
(* JSON shapes carries its shape in `kind`.                                  *)

\* the JSON values met under "applyEndPatternLast"
JsonAbsent == [kind |-> "absent", bool |-> FALSE, number |-> 0]

JsonNull == [kind |-> "null", bool |-> FALSE, number |-> 0]

JsonBool(b) == [kind |-> "bool", bool |-> b, number |-> 0]

JsonNumber(n) == [kind |-> "number", bool |-> FALSE, number |-> n]

\* the JSON values met under the four captures keys
JsonNoCaptures == [kind |-> "absent", object |-> <<>>, array |-> <<>>]

JsonObject(object) == [kind |-> "object", object |-> object, array |-> <<>>]

JsonArray(array) == [kind |-> "array", object |-> <<>>, array |-> array]

\* a JSON rule object without keys
JsonRule ==
    [include |-> None, name |-> None, contentName |-> None,
     match |-> None, captures |-> JsonNoCaptures,
     begin |-> None, beginCaptures |-> JsonNoCaptures,
     end |-> None, endCaptures |-> JsonNoCaptures,
     while |-> None, whileCaptures |-> JsonNoCaptures,
     patterns |-> None, repository |-> None,
     applyEndPatternLast |-> JsonAbsent]

\* Ok(value) and Err(..) of a Deserialize impl
Decoded(value) == [ok |-> TRUE, value |-> value]

DecodeError(value) == [ok |-> FALSE, value |-> value]

\* variant of bool_or_number: a decoder that reads every number but 0 as true
bool_or_number_nonzero(j) ==
    CASE j.kind \in {"absent", "null"} -> Decoded(None)
      [] j.kind = "bool" -> Decoded(Some(j.bool))
      [] j.kind = "number" ->
            IF j.number \notin 0..U8_MAX THEN DecodeError(None)
            ELSE Decoded(Some(j.number # 0))

\* Option::<BoolOrNumber>::deserialize, then the match of bool_or_number; a
\* number outside u8 matches no variant of the untagged enum
bool_or_number(j) ==
    CASE j.kind \in {"absent", "null"} -> Decoded(None)
      [] j.kind = "bool" -> Decoded(Some(j.bool))
      [] j.kind = "number" ->
            IF j.number \notin 0..U8_MAX THEN DecodeError(None)
            ELSE IF j.number = 0 THEN Decoded(Some(FALSE))
            ELSE IF j.number = 1 THEN Decoded(Some(TRUE))
            ELSE DecodeError(None)

RECURSIVE Rule_deserialize(_)

\* Option<Captures>: the newtype over HashMap<String, Rule> takes a JSON object only
Captures_deserialize(j) ==
    CASE j.kind = "absent" -> Decoded(None)
      [] j.kind = "object" ->
            LET entries == [k \in DOMAIN j.object |-> Rule_deserialize(j.object[k])]
            IN  IF \A k \in DOMAIN entries : entries[k].ok
                THEN Decoded(Some([k \in DOMAIN entries |-> entries[k].value]))
                ELSE DecodeError(None)
      [] j.kind = "array" -> DecodeError(None)

\* Vec<Rule>
Patterns_deserialize(array) ==
    LET elements == [n \in 1..Len(array) |-> Rule_deserialize(array[n])]
    IN  IF \A n \in 1..Len(array) : elements[n].ok
        THEN Decoded([n \in 1..Len(array) |-> elements[n].value])
        ELSE DecodeError(<<>>)

\* Option<Vec<Rule>>
OptionPatterns_deserialize(j) ==
    IF IsNone(j) THEN Decoded(None)
    ELSE LET patterns == Patterns_deserialize(Unwrap(j))
         IN  IF patterns.ok THEN Decoded(Some(patterns.value)) ELSE DecodeError(None)

\* Option<Repository>
Repository_deserialize(j) ==
    IF IsNone(j) THEN Decoded(None)
    ELSE LET entries == [n \in DOMAIN Unwrap(j) |-> Rule_deserialize(Unwrap(j)[n])]
         IN  IF \A n \in DOMAIN entries : entries[n].ok
             THEN Decoded(Some([n \in DOMAIN entries |-> entries[n].value]))
             ELSE DecodeError(None)

\* the derived Deserialize of parse::Rule, with its renamed keys
Rule_deserialize(j) ==
    LET captures == Captures_deserialize(j.captures)
        begin_captures == Captures_deserialize(j.beginCaptures)
        end_captures == Captures_deserialize(j.endCaptures)
        while_captures == Captures_deserialize(j.whileCaptures)
        patterns == OptionPatterns_deserialize(j.patterns)
        repository == Repository_deserialize(j.repository)
        apply_end_pattern_last == bool_or_number(j.applyEndPatternLast)
    IN  IF /\ captures.ok /\ begin_captures.ok /\ end_captures.ok
           /\ while_captures.ok /\ patterns.ok /\ repository.ok
           /\ apply_end_pattern_last.ok
        THEN Decoded(
               [include |-> j.include, name |-> j.name,
                content_name |-> j.contentName,
                match_ |-> j.match, captures |-> captures.value,
                begin |-> j.begin, begin_captures |-> begin_captures.value,
                end |-> j.end, end_captures |-> end_captures.value,
                while_ |-> j.while, while_captures |-> while_captures.value,
                patterns |-> patterns.value, repository |-> repository.value,
                apply_end_pattern_last |-> apply_end_pattern_last.value])
        ELSE DecodeError(DefaultRule)

\* the derived Deserialize of parse::SyntaxDefinition
SyntaxDefinition_deserialize(j) ==
    LET patterns == Patterns_deserialize(j.patterns)
        repository == Repository_deserialize(j.repository)
    IN  IF patterns.ok /\ repository.ok
        THEN Decoded(Syntax(patterns.value, repository.value))
        ELSE DecodeError(Syntax(<<>>, None))

\* Err(Error::Json {path, source}); the path and the serde message are left out
Json == Outcome("Err", "Json", None)

\* parse::SyntaxDefinition::from_json(json), whose Ok value is handed to compile
from_json ==
    /\ result.status = "Unparsed"
    /\ LET parsed == SyntaxDefinition_deserialize(Unwrap(json))
       IN  IF parsed.ok
           THEN /\ raw' = parsed.value
                /\ result' = Outcome("NotStarted", "", None)
           ELSE /\ raw' = raw
                /\ result' = Json
    /\ UNCHANGED <<json, rules, regexes, partial_regexes, repositories, frames,
                   calls, repo_calls>>

\* the documents: ABC_TMLANG of lib.rs, and one rule that carries the captures
\* keys and "applyEndPatternLast" in each of their JSON shapes
JsonNamed(name) == [JsonRule EXCEPT !.name = Some(name)]

JsonInclude(s) == [JsonRule EXCEPT !.include = Some(s)]

JsonSyntax(patterns, repository) == [patterns |-> patterns, repository |-> repository]

AbcJson ==
    JsonSyntax(<<JsonInclude(<<"#", "e">>)>>,
        Some([expression |->
                 [JsonRule EXCEPT !.patterns =
                     Some(<<JsonInclude(<<"#", "l">>), JsonInclude(<<"#", "p">>)>>)],
              letter |->
                 [JsonRule EXCEPT !.match = Some("a|b|c"), !.name = Some(<<"k">>)],
              paren |->
                 [JsonRule EXCEPT
                     !.begin = Some("\\("), !.end = Some("\\)"),
                     !.beginCaptures = JsonObject(<<"0">> :> JsonNamed(<<"o">>)),
                     !.endCaptures = JsonObject(<<"0">> :> JsonNamed(<<"c">>)),
                     !.name = Some(<<"g">>),
                     !.patterns = Some(<<JsonInclude(<<"#", "e">>)>>)]]))

JsonCaptures ==
    {JsonNoCaptures,
     JsonObject(<<"0">> :> JsonNamed(<<"x">>) @@ <<"1">> :> JsonNamed(<<"y">>)),
     JsonArray(<<JsonNamed(<<"x">>), JsonNamed(<<"y">>)>>),
     JsonArray(<<>>)}

JsonFlags ==
    {JsonAbsent, JsonNull, JsonBool(TRUE), JsonBool(FALSE)}
        \cup {JsonNumber(n) : n \in {-1, 0, 1, 2, U8_MAX, U8_MAX + 1}}

JsonShapes ==
    {[JsonRule EXCEPT !.match = Some("m")],
     [JsonRule EXCEPT !.begin = Some("b")],
     [JsonRule EXCEPT !.begin = Some("b"), !.end = Some("e")],
     [JsonRule EXCEPT !.begin = Some("b"), !.while = Some("w")],
     JsonRule}

JsonRules ==
    {[shape EXCEPT !.applyEndPatternLast = flag] :
        shape \in JsonShapes, flag \in JsonFlags}
    \cup {[shape EXCEPT ![key] = captures] :
            shape \in JsonShapes, captures \in JsonCaptures,
            key \in {"captures", "beginCaptures", "endCaptures", "whileCaptures"}}

JsonDocuments ==
    {AbcJson} \cup {JsonSyntax(<<rule>>, None) : rule \in JsonRules}

InitParse ==
    /\ json \in {Some(document) : document \in JsonDocuments}
    /\ raw = Syntax(<<>>, None)    \* no tree yet: compile waits for from_json
    /\ rules = <<>>
    /\ regexes = <<>>
    /\ partial_regexes = <<>>
    /\ repositories = <<>>
    /\ frames = <<>>
    /\ result = Outcome("Unparsed", "", None)
    /\ calls = <<>>
    /\ repo_calls = <<>>

NextParse == from_json \/ Next

SpecParse == InitParse /\ [][NextParse]_vars

-----------------------------------------------------------------------------
(* Id widths: grammars that make the compiler allocate as many              *)
(* RepositoryIds as a NonZeroU8 holds, and one more                         *)

\* a grammar whose patterns are n rules, each owning an empty repository block
ManyRepositories(n) ==
    Syntax([j \in 1..n |-> [DefaultRule EXCEPT !.repository = Some(<<>>)]], None)

IdSyntaxes ==
    {ManyRepositories(U8_MAX), ManyRepositories(U8_MAX + 1), AbcSyntax, SimpleSyntax}

InitIds ==
    /\ json = None
    /\ raw \in IdSyntaxes
    /\ rules = <<>>
    /\ regexes = <<>>
    /\ partial_regexes = <<>>
    /\ repositories = <<>>
    /\ frames = <<>>
    /\ result = Outcome("NotStarted", "", None)
    /\ calls = <<>>
    /\ repo_calls = <<>>

SpecIds == InitIds /\ [][Next]_vars

-----------------------------------------------------------------------------
(* Properties *)

\* the arenas exist: the compile is running or has returned Ok(syntax)
Alive == result.status \in {"Running", "Ok"}

Finished == result.status \in {"Ok", "Err", "Panic"}

RuleSlots == 1..Len(rules)

\* the raw rule that the compile_rule call owning slot i was given
RawOf(i) == calls[i].raw_rule

\* C1: every raw rule is classified by the first discriminator present:
\* match -> MatchRule; else begin and while -> BeginWhileRule (also when end is
\* set, and then `end` gets no partial regex: the partial regexes of a finished
\* compile are one per BeginWhileRule and one per BeginEndRule with `end`);
\* else begin -> BeginEndRule; else IncludeOnlyRule or NoopRule.
ExpectedVariants(raw_rule) ==
    IF IsSome(raw_rule.match_) THEN {"MatchRule"}
    ELSE IF IsSome(raw_rule.begin) /\ IsSome(raw_rule.while_) THEN {"BeginWhileRule"}
    ELSE IF IsSome(raw_rule.begin) THEN {"BeginEndRule"}
    ELSE {"IncludeOnlyRule", "NoopRule"}

C1_Classification ==
    /\ \A i \in RuleSlots :
          IsSome(rules[i]) =>
              /\ Unwrap(rules[i]).tag \in ExpectedVariants(RawOf(i))
              /\ Unwrap(rules[i]).tag = "BeginWhileRule" =>
                    partial_regexes[Unwrap(rules[i]).while_] = Unwrap(RawOf(i).while_)
              /\ (Unwrap(rules[i]).tag = "BeginEndRule" /\ IsSome(RawOf(i).end)) =>
                    /\ IsSome(Unwrap(rules[i]).end)
                    /\ partial_regexes[Unwrap(Unwrap(rules[i]).end)] = Unwrap(RawOf(i).end)
    /\ result.status = "Ok" =>
          Len(partial_regexes) =
              Cardinality({i \in RuleSlots : Unwrap(rules[i]).tag = "BeginWhileRule"})
              + Cardinality({i \in RuleSlots :
                    /\ Unwrap(rules[i]).tag = "BeginEndRule"
                    /\ IsSome(RawOf(i).end)})

\* a compile has finished in which a rule with begin, while, end, include and a
\* repository (and no match) became a BeginWhileRule with one partial regex
C1_Witness ==
    /\ result.status = "Ok"
    /\ \E i \in RuleSlots :
          /\ Unwrap(rules[i]).tag = "BeginWhileRule"
          /\ IsSome(RawOf(i).end)
          /\ IsSome(RawOf(i).include)
          /\ IsSome(RawOf(i).repository)
    /\ Len(partial_regexes) = 1

\* C2: reserve-then-fill.  While the compile runs, the absent slots of `rules`
\* are exactly the ids reserved by the compile_rule calls still on the call
\* stack, the absent slots of `repositories` exactly those of the
\* compile_repository calls on it; a filled slot is never rewritten; and when
\* compile has returned Ok every slot is present.
ReservedBy(fn) ==
    {frames[k].new_id : k \in {j \in 1..Len(frames) :
        frames[j].fn = fn /\ frames[j].pc # "start"}}

AbsentIn(arena) == {from_idx(i - 1) : i \in {j \in 1..Len(arena) : IsNone(arena[j])}}

C2_ReserveThenFillState ==
    Alive =>
        /\ AbsentIn(rules) = ReservedBy("compile_rule")
        /\ AbsentIn(repositories) = ReservedBy("compile_repository")
        /\ result.status = "Ok" =>
              /\ \A i \in 1..Len(rules) : IsSome(rules[i])
              /\ \A p \in 1..Len(repositories) : IsSome(repositories[p])

C2_ReserveThenFillStep ==
    result'.status \in {"Running", "Ok"} =>
        /\ \A i \in 1..Len(rules) :
              IsSome(rules[i]) => (Len(rules') >= i /\ rules'[i] = rules[i])
        /\ \A p \in 1..Len(repositories) :
              IsSome(repositories[p]) =>
                  (Len(repositories') >= p /\ repositories'[p] = repositories[p])

C2_ReserveThenFill == []C2_ReserveThenFillState /\ [][C2_ReserveThenFillStep]_vars

\* mid-compile: two nested compile_rule calls and a compile_repository call hold
\* reserved slots while an earlier rule and repository are already filled
C2_Witness ==
    /\ result.status = "Running"
    /\ Cardinality(AbsentIn(rules)) >= 2
    /\ Cardinality(AbsentIn(repositories)) >= 1
    /\ \E i \in 1..Len(rules) : IsSome(rules[i])
    /\ \E p \in 1..Len(repositories) : IsSome(repositories[p])

\* C3: in every successful compile the root rule, synthesized from the
\* top-level patterns and repository, has RuleId 1 (slot 0); it is an
\* IncludeOnlyRule when the top-level patterns are non-empty and a NoopRule when
\* they are empty; for empty patterns and no repository the arenas are
\* [NoopRule], [], [], [].
C3_RootRule ==
    /\ \A k \in 1..Len(frames) :
          (frames[k].fn = "compile" /\ frames[k].pc = "ret") =>
              frames[k].root_rule_id = 1
    /\ result.status = "Ok" =>
          /\ Len(rules) >= 1
          /\ IsSome(rules[1])
          /\ RawOf(1).patterns = Some(raw.patterns)
          /\ RawOf(1).repository = raw.repository
          /\ \A f \in DOMAIN RawOf(1) \ {"patterns", "repository"} : IsNone(RawOf(1)[f])
          /\ IF Len(raw.patterns) > 0
             THEN /\ Unwrap(rules[1]).tag = "IncludeOnlyRule"
                  /\ Unwrap(rules[1]).id = 1
                  /\ Len(Unwrap(rules[1]).patterns) = Len(raw.patterns)
             ELSE Unwrap(rules[1]).tag = "NoopRule"
          /\ (Len(raw.patterns) = 0 /\ IsNone(raw.repository)) =>
                /\ rules = <<Some([tag |-> "NoopRule"])>>
                /\ regexes = <<>>
                /\ partial_regexes = <<>>
                /\ repositories = <<>>

\* the grammar with empty patterns and no repository has been compiled
C3_Witness ==
    /\ result.status = "Ok"
    /\ Len(raw.patterns) = 0
    /\ IsNone(raw.repository)
    /\ Len(rules) = 1

\* a grammar with patterns and a repository has been compiled
C3_WitnessIncludeOnly ==
    /\ result.status = "Ok"
    /\ Len(raw.patterns) > 0
    /\ IsSome(raw.repository)
    /\ Unwrap(rules[1]).tag = "IncludeOnlyRule"


\* C4: five levels of nested repository blocks fail the compile with
\* RepositoryStackOverflow, nesting of at most four levels never does, and no
\* stack stored on an emitted rule (or passed to a call) holds more than 4
\* entries.  A level is a block the compiler opens inside the block above: a
\* block owned by a rule without match and begin that is reached through
\* repository entries, pattern elements without include, and captures.  The
\* overflow is what compile returns unless an unparseable capture key was met
\* before the fifth block.
MaxOf(S) == IF S = {} THEN 0 ELSE Max(S)

RECURSIVE NestDepth(_)

CapturesDepth(captures) ==
    IF IsNone(captures) THEN 0
    ELSE MaxOf({NestDepth(Unwrap(captures)[k]) : k \in DOMAIN Unwrap(captures)})

PatternsDepth(patterns) ==
    IF IsNone(patterns) THEN 0
    ELSE MaxOf({NestDepth(Unwrap(patterns)[j]) :
                   j \in {n \in 1..Len(Unwrap(patterns)) :
                             IsNone(Unwrap(patterns)[n].include)}})

NestDepth(rule) ==
    IF IsSome(rule.match_) THEN CapturesDepth(rule.captures)
    ELSE IF IsSome(rule.begin) THEN
        MaxOf({CapturesDepth(rule.begin_captures),
               IF IsSome(rule.while_) THEN CapturesDepth(rule.while_captures)
               ELSE CapturesDepth(rule.end_captures),
               PatternsDepth(rule.patterns)})
    ELSE IF IsSome(rule.repository) THEN
        1 + MaxOf({PatternsDepth(rule.patterns)}
                  \cup {NestDepth(Unwrap(rule.repository)[n]) :
                           n \in DOMAIN Unwrap(rule.repository)})
    ELSE PatternsDepth(rule.patterns)

GrammarDepth ==
    NestDepth([DefaultRule EXCEPT !.patterns = Some(raw.patterns),
                                  !.repository = raw.repository])

C4_RepositoryStackOverflow ==
    /\ (result.status \in {"Ok", "Err"} /\ GrammarDepth >= 5
            /\ result.error # "UnparseableCaptureIndex") =>
          result = RepositoryStackOverflow
    /\ GrammarDepth <= 4 => result # RepositoryStackOverflow
    /\ \A i \in 1..Len(rules) :
          (IsSome(rules[i]) /\ Unwrap(rules[i]).tag # "NoopRule") =>
              /\ Unwrap(rules[i]).repository_stack.capacity <= 4
              /\ Len(Unwrap(rules[i]).repository_stack.stack) = 4
    /\ \A k \in 1..Len(frames) :
          frames[k].fn \in {"compile_rule", "compile_captures", "compile_patterns"} =>
              frames[k].repository_stack.capacity <= 4

\* a grammar with exactly five levels has failed with RepositoryStackOverflow
C4_Witness ==
    /\ GrammarDepth = 5
    /\ result = RepositoryStackOverflow

\* a grammar with exactly four levels has compiled and a rule stores a full stack
C4_WitnessFour ==
    /\ GrammarDepth = 4
    /\ result.status = "Ok"
    /\ \E i \in 1..Len(rules) :
          /\ Unwrap(rules[i]).tag # "NoopRule"
          /\ Unwrap(rules[i]).repository_stack.capacity = 4

\* C5: compile_patterns maps a pattern list to a list of the same length and
\* order; an element with `include` becomes the Reference parsed from it and
\* allocates nothing (no call is made, no arena grows), whatever else the
\* element carries; every other element is compiled by compile_rule and becomes
\* that rule's RuleId.
ElementOk(raw_rule, compiled) ==
    IF IsSome(raw_rule.include)
    THEN compiled = [tag |-> "Reference", rule_id |-> None,
                     reference |-> Some(Reference_from(Unwrap(raw_rule.include)))]
    ELSE /\ compiled.tag = "RuleId"
         /\ IsNone(compiled.reference)
         /\ Unwrap(compiled.rule_id) \in 1..Len(calls)
         /\ calls[Unwrap(compiled.rule_id)].raw_rule = raw_rule

PrefixOk(raw_patterns, out) ==
    /\ Len(out) <= Len(raw_patterns)
    /\ \A j \in 1..Len(out) : ElementOk(raw_patterns[j], out[j])
    /\ \A j, n \in 1..Len(out) :
          (j < n /\ out[j].tag = "RuleId" /\ out[n].tag = "RuleId") =>
              Unwrap(out[j].rule_id) < Unwrap(out[n].rule_id)

PatternsOk(raw_patterns, out) ==
    Len(out) = Len(raw_patterns) /\ PrefixOk(raw_patterns, out)

C5_PatternsState ==
    /\ \A k \in 1..Len(frames) :
          frames[k].fn = "compile_patterns" =>
              PrefixOk(frames[k].raw_patterns, frames[k].out)
    /\ \A i \in 1..Len(rules) :
          IsSome(rules[i]) =>
              LET rule == Unwrap(rules[i])
              IN  /\ rule.tag \in {"BeginEndRule", "BeginWhileRule"} =>
                        /\ IsSome(rule.patterns) <=> IsSome(RawOf(i).patterns)
                        /\ IsSome(rule.patterns) =>
                              PatternsOk(Unwrap(RawOf(i).patterns), Unwrap(rule.patterns))
                  /\ rule.tag = "IncludeOnlyRule" =>
                        PatternsOk(IF IsSome(RawOf(i).patterns)
                                   THEN Unwrap(RawOf(i).patterns)
                                   ELSE <<Include(Unwrap(RawOf(i).include))>>,
                                   rule.patterns)

C5_PatternsStep ==
    (/\ InCall("compile_patterns")
     /\ Len(Top.out) < Len(Top.raw_patterns)
     /\ IsSome(Top.raw_patterns[Len(Top.out) + 1].include)) =>
        /\ UNCHANGED <<rules, regexes, partial_regexes, repositories, calls, repo_calls>>
        /\ Len(frames') = Len(frames)
        /\ Len(frames'[Len(frames)].out) = Len(Top.out) + 1

C5_Patterns == []C5_PatternsState /\ [][C5_PatternsStep]_vars

\* a list of an element carrying include and match and a match rule has been
\* compiled to a Reference and a RuleId; the only regex is the second element's
C5_Witness ==
    /\ result.status = "Ok"
    /\ Len(raw.patterns) = 2
    /\ IsSome(raw.patterns[1].include) /\ IsSome(raw.patterns[1].match_)
    /\ IsNone(raw.patterns[2].include) /\ IsSome(raw.patterns[2].match_)
    /\ Unwrap(rules[1]).patterns[1].tag = "Reference"
    /\ Unwrap(rules[1]).patterns[2].tag = "RuleId"
    /\ Len(rules) = 2
    /\ Len(regexes) = 1

\* C6: on a captures map whose keys are all decimal integers compile_captures
\* returns absent when the map has no keys and otherwise a dense sequence of
\* length (maximum key) + 1 whose slot k holds a RuleId exactly when some key
\* parses to k, the id of a rule compiled from an entry with that index.  The
\* keys are short: a key too long for usize is not a key of these maps.
IsDecimal(key) == key # <<>> /\ \A n \in 1..Len(key) : key[n] \in Digits

CapturesOk(raw_captures, captures) ==
    IF IsNone(raw_captures) \/ DOMAIN Unwrap(raw_captures) = {}
    THEN IsNone(captures)
    ELSE LET map == Unwrap(raw_captures)
             keys == DOMAIN map
         IN  (\A key \in keys : IsDecimal(key)) =>
                 /\ IsSome(captures)
                 /\ Len(Unwrap(captures)) =
                        Max({DecimalValue(key) : key \in keys}) + 1
                 /\ \A k \in 0..(Len(Unwrap(captures)) - 1) :
                       LET slot == Unwrap(captures)[k + 1]
                       IN  /\ IsSome(slot) <=>
                                 \E key \in keys : DecimalValue(key) = k
                           /\ IsSome(slot) =>
                                 /\ Unwrap(slot) \in 1..Len(calls)
                                 /\ \E key \in keys :
                                       /\ DecimalValue(key) = k
                                       /\ calls[Unwrap(slot)].raw_rule = map[key]

C6_Captures ==
    \A i \in 1..Len(rules) :
        IsSome(rules[i]) =>
            LET rule == Unwrap(rules[i])
            IN  /\ rule.tag = "MatchRule" =>
                      CapturesOk(RawOf(i).captures, rule.captures)
                /\ rule.tag = "BeginEndRule" =>
                      /\ CapturesOk(RawOf(i).begin_captures, rule.begin_captures)
                      /\ CapturesOk(RawOf(i).end_captures, rule.end_captures)
                /\ rule.tag = "BeginWhileRule" =>
                      /\ CapturesOk(RawOf(i).begin_captures, rule.begin_captures)
                      /\ CapturesOk(RawOf(i).while_captures, rule.while_captures)

\* the keys "01" and "10" have been compiled to a sequence of length 11 with
\* slots 1 and 10 present and the rest absent
C6_Witness ==
    /\ result.status = "Ok"
    /\ \E i \in 1..Len(rules) :
          /\ Unwrap(rules[i]).tag = "MatchRule"
          /\ IsSome(RawOf(i).captures)
          /\ DOMAIN Unwrap(RawOf(i).captures) = {<<"0", "1">>, <<"1", "0">>}
          /\ IsSome(Unwrap(rules[i]).captures)
          /\ Len(Unwrap(Unwrap(rules[i]).captures)) = 11
          /\ IsNone(Unwrap(Unwrap(rules[i]).captures)[1])
          /\ IsSome(Unwrap(Unwrap(rules[i]).captures)[2])
          /\ IsSome(Unwrap(Unwrap(rules[i]).captures)[11])

\* a captures map without keys has been compiled to absent captures
C6_WitnessNoKeys ==
    /\ result.status = "Ok"
    /\ \E i \in 1..Len(rules) :
          /\ Unwrap(rules[i]).tag = "MatchRule"
          /\ IsSome(RawOf(i).captures)
          /\ DOMAIN Unwrap(RawOf(i).captures) = {}
          /\ IsNone(Unwrap(rules[i]).captures)


\* C7: a capture key that does not parse as a non-negative decimal integer
\* counts as 0 when the captures vector is sized but stops the compile when the
\* entries are visited: a compile in which compile_captures was applied to a map
\* with such a key never succeeds, and the error it raises on the key is
\* UnparseableCaptureIndex carrying that key.  A key parses as str::parse::<usize>
\* reads it: an optional '+' and then at least one ASCII digit.
ParsesAsDecimal(key) ==
    LET digits == IF key # <<>> /\ key[1] = "+" THEN Tail(key) ELSE key
    IN  digits # <<>> /\ \A n \in 1..Len(digits) : digits[n] \in Digits

ValueOrZero(key) ==
    IF ParsesAsDecimal(key)
    THEN DecimalValue(IF key[1] = "+" THEN Tail(key) ELSE key)
    ELSE 0

HasBadKey(raw_captures) == \E key \in DOMAIN raw_captures : ~ParsesAsDecimal(key)

CapturesFieldsOf(tag) ==
    CASE tag = "MatchRule" -> {"captures"}
      [] tag = "BeginEndRule" -> {"begin_captures", "end_captures"}
      [] tag = "BeginWhileRule" -> {"begin_captures", "while_captures"}
      [] OTHER -> {}

C7_BadKeyState ==
    /\ \A i \in 1..Len(rules) :
          IsSome(rules[i]) =>
              \A field \in CapturesFieldsOf(Unwrap(rules[i]).tag) :
                  IsSome(RawOf(i)[field]) => ~HasBadKey(Unwrap(RawOf(i)[field]))
    /\ \A k \in 1..Len(frames) :
          frames[k].fn = "compile_captures" =>
              /\ DOMAIN frames[k].raw_captures # {}
              /\ Len(frames[k].captures) =
                     Max({ValueOrZero(key) : key \in DOMAIN frames[k].raw_captures}) + 1
    /\ result.error = "UnparseableCaptureIndex" =>
          /\ result.status = "Err"
          /\ IsSome(result.index)
          /\ ~ParsesAsDecimal(Unwrap(result.index))

C7_BadKeyStep ==
    /\ (\E k \in 1..Len(frames) :
            /\ frames[k].fn = "compile_captures"
            /\ HasBadKey(frames[k].raw_captures)) =>
          /\ result'.status # "Ok"
          /\ frames' = <<>> => result'.status = "Err"
    /\ InCall("compile_captures") =>
          /\ result'.error = "UnparseableCaptureIndex" =>
                /\ frames' = <<>>
                /\ IsSome(result'.index)
                /\ Unwrap(result'.index) \in Top.remaining
                /\ ~ParsesAsDecimal(Unwrap(result'.index))
          /\ \A key \in Top.remaining :
                (Len(frames') > Len(frames) /\ key \notin frames'[Len(frames)].remaining) =>
                    /\ ParsesAsDecimal(key)
                    /\ frames'[Len(frames)].idx = ValueOrZero(key)
    /\ ~InCall("compile_captures") => result'.error # "UnparseableCaptureIndex"
                                          \/ result.error = "UnparseableCaptureIndex"

C7_BadKey == []C7_BadKeyState /\ [][C7_BadKeyStep]_vars

\* the map {"2", "x"} was sized to three slots, the rule of "2" was compiled,
\* and the compile then failed on "x"
C7_Witness ==
    /\ result = UnparseableCaptureIndex(<<"x">>)
    /\ \E i \in 1..Len(calls) :
          /\ IsSome(calls[i].raw_rule.captures)
          /\ DOMAIN Unwrap(calls[i].raw_rule.captures) = {<<"2">>, <<"x">>}
          /\ i < Len(calls)
          /\ calls[i + 1].raw_rule = Unwrap(calls[i].raw_rule.captures)[<<"2">>]

\* compile_captures is iterating a map with the keys "2" and "x" over a vector
\* of three slots
C7_WitnessSizing ==
    /\ InCall("compile_captures")
    /\ DOMAIN Top.raw_captures = {<<"2">>, <<"x">>}
    /\ Len(Top.captures) = 3


\* C8: an include string is parsed by the first matching rule of: "$base" is
\* Base; "$self" is Self; a leading '#' gives Relative with the rest as rule
\* name; a '#' elsewhere gives TopLevelRepository, split at the first '#' into
\* scope and rule name; anything else is TopLevel with the whole string as
\* scope.  Parsing is total and injective: distinct include strings give
\* distinct references, and the string is recovered from its reference (Render
\* writes a reference back as "$base", "$self", "#" rule, scope "#" rule, or
\* scope; the code itself has no such function).
FirstHash(s) == CHOOSE j \in 1..Len(s) : s[j] = "#" /\ \A k \in 1..(j - 1) : s[k] # "#"

ExpectedReference(s) ==
    IF s = <<"$", "b", "a", "s", "e">> THEN
        [tag |-> "Base", scope |-> None, rule |-> None]
    ELSE IF s = <<"$", "s", "e", "l", "f">> THEN
        [tag |-> "Self_", scope |-> None, rule |-> None]
    ELSE IF s # <<>> /\ Head(s) = "#" THEN
        [tag |-> "Relative", scope |-> None, rule |-> Some(Tail(s))]
    ELSE IF \E j \in 1..Len(s) : s[j] = "#" THEN
        [tag |-> "TopLevelRepository",
         scope |-> Some(SubSeq(s, 1, FirstHash(s) - 1)),
         rule |-> Some(SubSeq(s, FirstHash(s) + 1, Len(s)))]
    ELSE [tag |-> "TopLevel", scope |-> Some(s), rule |-> None]

Render(reference) ==
    CASE reference.tag = "Base" -> <<"$", "b", "a", "s", "e">>
      [] reference.tag = "Self_" -> <<"$", "s", "e", "l", "f">>
      [] reference.tag = "Relative" -> <<"#">> \o Unwrap(reference.rule)
      [] reference.tag = "TopLevelRepository" ->
            Unwrap(reference.scope) \o <<"#">> \o Unwrap(reference.rule)
      [] reference.tag = "TopLevel" -> Unwrap(reference.scope)

\* the references compile_patterns has produced so far, with their include strings
ParsedIncludes ==
    UNION {{<<Unwrap(frames[k].raw_patterns[j].include),
              Unwrap(frames[k].out[j].reference)>> :
               j \in {n \in 1..Len(frames[k].out) :
                         frames[k].out[n].tag = "Reference"}} :
              k \in {n \in 1..Len(frames) : frames[n].fn = "compile_patterns"}}
    \cup
    (IF Len(rules) >= 1 /\ IsSome(rules[1])
           /\ Unwrap(rules[1]).tag = "IncludeOnlyRule"
     THEN {<<Unwrap(raw.patterns[j].include),
             Unwrap(Unwrap(rules[1]).patterns[j].reference)>> :
              j \in {n \in 1..Len(Unwrap(rules[1]).patterns) :
                        Unwrap(rules[1]).patterns[n].tag = "Reference"}}
     ELSE {})

C8_ReferenceParsing ==
    /\ \A p \in ParsedIncludes :
          /\ p[2] = ExpectedReference(p[1])
          /\ Render(p[2]) = p[1]
    /\ \A p, q \in ParsedIncludes : p[2] = q[2] => p[1] = q[1]
    /\ result.status \in {"NotStarted", "Running", "Ok"}
    /\ result.status = "Ok" =>
          /\ Len(Unwrap(rules[1]).patterns) = Len(raw.patterns)
          /\ \A j \in 1..Len(raw.patterns) :
                Unwrap(rules[1]).patterns[j].tag = "Reference"

\* "a#b" and "a##" have been parsed: TopLevelRepository a/b and a/#
C8_Witness ==
    /\ result.status = "Ok"
    /\ <<<<"a", "#", "b">>,
         [tag |-> "TopLevelRepository", scope |-> Some(<<"a">>), rule |-> Some(<<"b">>)]>>
           \in ParsedIncludes
    /\ <<<<"a", "#", "#">>,
         [tag |-> "TopLevelRepository", scope |-> Some(<<"a">>), rule |-> Some(<<"#">>)]>>
           \in ParsedIncludes

\* C9 (as stated): the include strings "", "#" and "scope#" each parse to
\* TopLevel, and parsing never raises an error.
DegenerateIncludes == {<<>>, <<"#">>, <<"a", "#">>}

C9_DegenerateTopLevel ==
    /\ \A p \in ParsedIncludes :
          p[1] \in DegenerateIncludes => p[2].tag = "TopLevel"
    /\ result.status \in {"NotStarted", "Running", "Ok"}

\* C9 (amended): the empty include string parses to TopLevel with an empty
\* scope; "#" parses to Relative with an empty rule name and "scope#" to
\* TopLevelRepository with that scope and an empty rule name; parsing never
\* raises an error.
C9_Degenerate ==
    /\ \A p \in ParsedIncludes :
          /\ p[1] = <<>> =>
                p[2] = [tag |-> "TopLevel", scope |-> Some(<<>>), rule |-> None]
          /\ p[1] = <<"#">> =>
                p[2] = [tag |-> "Relative", scope |-> None, rule |-> Some(<<>>)]
          /\ (/\ Len(p[1]) >= 2
               /\ p[1][Len(p[1])] = "#"
               /\ \A n \in 1..(Len(p[1]) - 1) : p[1][n] # "#") =>
                p[2] = [tag |-> "TopLevelRepository",
                        scope |-> Some(SubSeq(p[1], 1, Len(p[1]) - 1)),
                        rule |-> Some(<<>>)]
    /\ result.status \in {"NotStarted", "Running", "Ok"}
    /\ (frames = <<>> /\ result.status # "NotStarted") => result.status = "Ok"

\* "#" and "a#" have been parsed in one compile, which succeeded
C9_Witness ==
    /\ result.status = "Ok"
    /\ \E p \in ParsedIncludes : p[1] = <<"#">> /\ p[2].tag = "Relative"
    /\ \E p \in ParsedIncludes : p[1] = <<"a", "#">> /\ p[2].tag = "TopLevelRepository"

\* the empty include string has been parsed in a compile that succeeded
C9_WitnessEmpty ==
    /\ result.status = "Ok"
    /\ \E p \in ParsedIncludes : p[1] = <<>> /\ p[2].tag = "TopLevel"


\* C10 (as stated): every successful compile of the simple grammar (repository
\* digits/whitespace, root patterns include "#digits" and "#whitespace") yields
\* regexes = ["\d+", "\s"] in that order, partial_regexes = ["\S"], exactly one
\* repository with two name -> RuleId entries, and a root rule with exactly two
\* pattern entries, both Relative references, whatever order the repository
\* map's entries are visited in.
SimpleRest ==
    /\ partial_regexes = <<"\\S">>
    /\ Len(repositories) = 1
    /\ IsSome(repositories[1])
    /\ DOMAIN Unwrap(repositories[1]).rules = {"digits", "whitespace"}
    /\ \A name \in {"digits", "whitespace"} :
          Unwrap(repositories[1]).rules[name] \in 2..Len(rules)
    /\ Unwrap(repositories[1]).rules["digits"] #
           Unwrap(repositories[1]).rules["whitespace"]
    /\ Unwrap(rules[1]).tag = "IncludeOnlyRule"
    /\ Len(Unwrap(rules[1]).patterns) = 2
    /\ \A j \in 1..2 :
          /\ Unwrap(rules[1]).patterns[j].tag = "Reference"
          /\ Unwrap(Unwrap(rules[1]).patterns[j].reference).tag = "Relative"

C10_SimpleSyntaxOrdered ==
    (raw = SimpleSyntax /\ result.status = "Ok") =>
        /\ regexes = <<"\\d+", "\\s">>
        /\ SimpleRest

\* C10 (amended): every successful compile of the simple grammar yields a
\* regexes arena holding exactly "\d+" and "\s", in the order in which the
\* repository map's entries were visited (["\d+", "\s"] when digits was
\* compiled first, ["\s", "\d+"] when whitespace was), partial_regexes =
\* ["\S"], exactly one repository with two name -> RuleId entries, and a root
\* rule with exactly two pattern entries, both Relative references.
C10_SimpleSyntax ==
    (raw = SimpleSyntax /\ result.status = "Ok") =>
        /\ SimpleRest
        /\ LET entries == Unwrap(repositories[1]).rules
           IN  /\ entries["digits"] < entries["whitespace"] =>
                      regexes = <<"\\d+", "\\s">>
               /\ entries["whitespace"] < entries["digits"] =>
                      regexes = <<"\\s", "\\d+">>
               /\ Unwrap(rules[entries["digits"]]).tag = "MatchRule"
               /\ Unwrap(rules[entries["whitespace"]]).tag = "BeginEndRule"
               /\ regexes[Unwrap(rules[entries["digits"]]).match_] = "\\d+"
               /\ regexes[Unwrap(rules[entries["whitespace"]]).begin] = "\\s"

\* the simple grammar has compiled with the whitespace entry visited first
C10_Witness ==
    /\ raw = SimpleSyntax
    /\ result.status = "Ok"
    /\ regexes = <<"\\s", "\\d+">>
    /\ Unwrap(repositories[1]).rules["whitespace"] = 2

\* the simple grammar has compiled with the digits entry visited first
C10_WitnessDigitsFirst ==
    /\ raw = SimpleSyntax
    /\ result.status = "Ok"
    /\ regexes = <<"\\d+", "\\s">>
    /\ Unwrap(repositories[1]).rules["digits"] = 2


\* C11 (as stated): the parse stage accepts each of the four captures keys both
\* as a map from decimal-string index to rule and as an ordered sequence of
\* rules, the sequence being normalized to the map keyed by position; so a
\* match rule whose `captures` is a 2-element array parses and compiles to a
\* Captures of length 2 with both slots present.
JsonRuleOf == Unwrap(json).patterns[1]

Parsed == IsSome(json) /\ result.status # "Unparsed"

CapturesKeys ==
    [captures |-> "captures", beginCaptures |-> "begin_captures",
     endCaptures |-> "end_captures", whileCaptures |-> "while_captures"]

PositionKey(n) == <<CHOOSE d \in Digits : DigitValue(d) = n - 1>>

NormalizedRule(j) == [DefaultRule EXCEPT !.name = j.name]

NormalizedCaptures(j) ==
    CASE j.kind = "absent" -> None
      [] j.kind = "object" ->
            Some([k \in DOMAIN j.object |-> NormalizedRule(j.object[k])])
      [] j.kind = "array" ->
            Some([k \in {PositionKey(n) : n \in 1..Len(j.array)} |->
                     NormalizedRule(j.array[DecimalValue(k) + 1])])

FlagAccepted(flag) == flag.kind = "number" => flag.number \in {0, 1}

C11_CapturesArray ==
    (Parsed /\ FlagAccepted(JsonRuleOf.applyEndPatternLast)) =>
        /\ result # Json
        /\ \A key \in DOMAIN CapturesKeys :
              raw.patterns[1][CapturesKeys[key]] = NormalizedCaptures(JsonRuleOf[key])
        /\ (/\ result.status = "Ok"
            /\ IsSome(JsonRuleOf.match)
            /\ JsonRuleOf.captures.kind = "array"
            /\ Len(JsonRuleOf.captures.array) = 2) =>
              /\ Unwrap(rules[2]).tag = "MatchRule"
              /\ IsSome(Unwrap(rules[2]).captures)
              /\ Len(Unwrap(Unwrap(rules[2]).captures)) = 2
              /\ \A k \in 1..2 : IsSome(Unwrap(Unwrap(rules[2]).captures)[k])

\* C12: "applyEndPatternLast" decodes true or 1 to true, false or 0 to false,
\* a missing key to absent, and any other number to the parse error Json; a
\* compiled BeginEndRule has apply_end_pattern_last = true exactly when the
\* decoded value is true (absent compiles to false).
CapturesAccepted(j) == \A key \in DOMAIN CapturesKeys : j[key].kind # "array"

DecodedFlag(flag) ==
    CASE flag.kind = "bool" -> Some(flag.bool)
      [] flag.kind = "number" -> Some(flag.number = 1)
      [] flag.kind = "absent" -> None

C12_ApplyEndPatternLast ==
    (Parsed /\ CapturesAccepted(JsonRuleOf)) =>
        LET flag == JsonRuleOf.applyEndPatternLast
        IN  /\ result = Json <=> (flag.kind = "number" /\ flag.number \notin {0, 1})
            /\ (result # Json /\ flag.kind # "null") =>
                  raw.patterns[1].apply_end_pattern_last = DecodedFlag(flag)
            /\ \A i \in 1..Len(rules) :
                  (IsSome(rules[i]) /\ Unwrap(rules[i]).tag = "BeginEndRule") =>
                      /\ Unwrap(rules[i]).apply_end_pattern_last
                            <=> RawOf(i).apply_end_pattern_last = Some(TRUE)
                      /\ (i = 2 /\ flag.kind # "null") =>
                            (Unwrap(rules[i]).apply_end_pattern_last
                                <=> DecodedFlag(flag) = Some(TRUE))

\* a begin rule written with "applyEndPatternLast": 1 has compiled to a
\* BeginEndRule with apply_end_pattern_last = true
C12_Witness ==
    /\ Parsed
    /\ result.status = "Ok"
    /\ JsonRuleOf.applyEndPatternLast = JsonNumber(1)
    /\ Unwrap(rules[2]).tag = "BeginEndRule"
    /\ Unwrap(rules[2]).apply_end_pattern_last

\* "applyEndPatternLast": 2 has been refused by the parse stage
C12_WitnessError ==
    /\ Parsed
    /\ result = Json
    /\ JsonRuleOf.applyEndPatternLast = JsonNumber(2)

\* a begin rule without the key has compiled with apply_end_pattern_last = false
C12_WitnessAbsent ==
    /\ Parsed
    /\ result.status = "Ok"
    /\ JsonRuleOf.applyEndPatternLast = JsonAbsent
    /\ Unwrap(rules[2]).tag = "BeginEndRule"
    /\ ~Unwrap(rules[2]).apply_end_pattern_last

\* the document of lib.rs decodes to the tree AbcSyntax
AbcDecoded == (Parsed /\ json = Some(AbcJson)) => raw = AbcSyntax


\* C13 (as stated): every compile of a parse tree ends in exactly one of three
\* outcomes: a compiled SyntaxDefinition, the error RepositoryStackOverflow, or
\* the error UnparseableCaptureIndex; no other failure comes from the number
\* of rules, regexes, partial regexes or repositories the grammar allocates.
C13_ThreeOutcomes ==
    (frames = <<>> /\ result.status \notin {"Unparsed", "NotStarted"}) =>
        \/ result.status = "Ok"
        \/ result = RepositoryStackOverflow
        \/ (result.status = "Err" /\ result.error = "UnparseableCaptureIndex")

\* as many repository blocks as a NonZeroU8 holds still compile
ManyRepositoriesCompiled ==
    /\ result.status = "Ok"
    /\ Len(repositories) = U8_MAX


\* C14: for a rule with neither `match` nor `begin` the pattern list is the raw
\* `patterns` whenever it is present, even when empty, and the one-element list
\* [Rule{include}] only when `patterns` is absent and `include` is present; the
\* rule is emitted as NoopRule exactly when that list is absent or empty (so
\* `patterns: []` with an `include` is a NoopRule), and otherwise as an
\* IncludeOnlyRule whose patterns are the compiled list.
IncludeOnlyShaped(raw_rule) == IsNone(raw_rule.match_) /\ IsNone(raw_rule.begin)

ExpectedPatternList(raw_rule) ==
    IF IsSome(raw_rule.patterns) THEN raw_rule.patterns
    ELSE IF IsSome(raw_rule.include)
         THEN Some(<<[DefaultRule EXCEPT !.include = raw_rule.include]>>)
         ELSE None

C14_IncludeOnlyPatternList ==
    /\ \A i \in 1..Len(rules) :
          (IsSome(rules[i]) /\ IncludeOnlyShaped(RawOf(i))) =>
              LET list == ExpectedPatternList(RawOf(i))
                  rule == Unwrap(rules[i])
              IN  /\ rule.tag \in {"NoopRule", "IncludeOnlyRule"}
                  /\ rule.tag = "NoopRule" <=>
                        (IsNone(list) \/ Unwrap(list) = <<>>)
                  /\ rule.tag = "IncludeOnlyRule" =>
                        PatternsOk(Unwrap(list), rule.patterns)
    /\ \A k \in 2..Len(frames) :
          (/\ frames[k].fn = "compile_patterns"
           /\ IncludeOnlyShaped(frames[k - 1].raw_rule)) =>
              /\ ExpectedPatternList(frames[k - 1].raw_rule) # None
              /\ frames[k].raw_patterns =
                     Unwrap(ExpectedPatternList(frames[k - 1].raw_rule))
              /\ frames[k].raw_patterns # <<>>

\* a rule with `patterns: []` and an `include` has been emitted as a NoopRule
C14_Witness ==
    /\ result.status = "Ok"
    /\ \E i \in 2..Len(rules) :
          /\ IncludeOnlyShaped(RawOf(i))
          /\ RawOf(i).patterns = Some(<<>>)
          /\ IsSome(RawOf(i).include)
          /\ Unwrap(rules[i]).tag = "NoopRule"

\* a rule with an `include` and no `patterns` has been emitted as an
\* IncludeOnlyRule with the one reference
C14_WitnessInclude ==
    /\ result.status = "Ok"
    /\ \E i \in 2..Len(rules) :
          /\ IncludeOnlyShaped(RawOf(i))
          /\ IsNone(RawOf(i).patterns)
          /\ IsSome(RawOf(i).include)
          /\ Unwrap(rules[i]).tag = "IncludeOnlyRule"
          /\ Len(Unwrap(rules[i]).patterns) = 1
          /\ Unwrap(rules[i]).patterns[1].tag = "Reference"


\* C15: lexical scoping is preserved.  When a rule with neither match nor begin
\* received stack S and owns a repository that is given id p, then every entry
\* of that repository, the owning rule itself (if emitted as IncludeOnlyRule)
\* and every rule compiled from the owner's pattern list are compiled with, or
\* store, S followed by p (p once, on top); rules compiled from the captures or
\* patterns of Match, BeginEnd and BeginWhile rules store the unchanged stack S
\* of their parent.  So each stored stack lists, outermost first, exactly the
\* repositories lexically visible to that rule.
StackIds(self) == [n \in 1..self.capacity |-> Unwrap(self.stack[n])]

ReceivedIds(i) == StackIds(calls[i].repository_stack)

CaptureIds(captures) ==
    IF IsNone(captures) THEN {}
    ELSE {Unwrap(Unwrap(captures)[k]) :
             k \in {n \in 1..Len(Unwrap(captures)) : IsSome(Unwrap(captures)[n])}}

PatternIds(patterns) ==
    {Unwrap(patterns[j].rule_id) :
        j \in {n \in 1..Len(patterns) : patterns[n].tag = "RuleId"}}

OptionPatternIds(patterns) ==
    IF IsNone(patterns) THEN {} ELSE PatternIds(Unwrap(patterns))

\* the rules compiled from the captures and patterns of an emitted rule
ChildIds(rule) ==
    CASE rule.tag = "MatchRule" -> CaptureIds(rule.captures)
      [] rule.tag = "BeginEndRule" ->
            CaptureIds(rule.begin_captures) \cup CaptureIds(rule.end_captures)
                \cup OptionPatternIds(rule.patterns)
      [] rule.tag = "BeginWhileRule" ->
            CaptureIds(rule.begin_captures) \cup CaptureIds(rule.while_captures)
                \cup OptionPatternIds(rule.patterns)
      [] rule.tag = "IncludeOnlyRule" -> PatternIds(rule.patterns)
      [] rule.tag = "NoopRule" -> {}

\* the entries compiled so far of repository p
EntryIds(p) ==
    IF IsSome(repositories[p])
    THEN {Unwrap(repositories[p]).rules[n] : n \in DOMAIN Unwrap(repositories[p]).rules}
    ELSE UNION {{frames[k].repository[n] : n \in DOMAIN frames[k].repository} :
                   k \in {n \in 1..Len(frames) :
                             /\ frames[n].fn = "compile_repository"
                             /\ frames[n].new_id = p}}

C15_LexicalScoping ==
    /\ \A p \in 1..Len(repositories) :
          LET owner == repo_calls[p].owner
              extended == ReceivedIds(owner) \o <<p>>
          IN  /\ IncludeOnlyShaped(RawOf(owner))
              /\ repo_calls[p].repository_stack = calls[owner].repository_stack
              /\ \A id \in EntryIds(p) : ReceivedIds(id) = extended
              /\ (IsSome(rules[owner]) /\ Unwrap(rules[owner]).tag = "IncludeOnlyRule") =>
                    /\ StackIds(Unwrap(rules[owner]).repository_stack) = extended
                    /\ \A id \in ChildIds(Unwrap(rules[owner])) :
                          ReceivedIds(id) = extended
    /\ \A i \in 1..Len(rules) :
          (IsSome(rules[i]) /\ Unwrap(rules[i]).tag # "NoopRule") =>
              LET rule == Unwrap(rules[i])
                  stored == StackIds(rule.repository_stack)
              IN  /\ rule.tag \in {"MatchRule", "BeginEndRule", "BeginWhileRule"} =>
                        /\ stored = ReceivedIds(i)
                        /\ \A id \in ChildIds(rule) : ReceivedIds(id) = ReceivedIds(i)
                  /\ (rule.tag = "IncludeOnlyRule"
                         /\ \A p \in 1..Len(repo_calls) : repo_calls[p].owner # i) =>
                        /\ stored = ReceivedIds(i)
                        /\ \A id \in ChildIds(rule) : ReceivedIds(id) = ReceivedIds(i)
                  /\ \A n \in 1..Len(stored) :
                        /\ stored[n] \in 1..Len(repo_calls)
                        /\ StackIds(repo_calls[stored[n]].repository_stack) =
                               SubSeq(stored, 1, n - 1)

\* an include-only rule that received one repository and owns another has been
\* emitted with both, and a match rule among its patterns and a match rule
\* among its repository's entries store the same two
C15_Witness ==
    /\ result.status = "Ok"
    /\ \E p \in 1..Len(repositories) :
          LET owner == repo_calls[p].owner
          IN  /\ Len(ReceivedIds(owner)) = 1
              /\ Unwrap(rules[owner]).tag = "IncludeOnlyRule"
              /\ StackIds(Unwrap(rules[owner]).repository_stack) =
                     ReceivedIds(owner) \o <<p>>
              /\ \E id \in EntryIds(p) :
                    /\ Unwrap(rules[id]).tag = "MatchRule"
                    /\ Len(StackIds(Unwrap(rules[id]).repository_stack)) = 2
              /\ \E id \in ChildIds(Unwrap(rules[owner])) :
                    /\ Unwrap(rules[id]).tag # "NoopRule"
                    /\ Len(StackIds(Unwrap(rules[id]).repository_stack)) = 2


\* C16: ids are allocated in pre-order and are stable.  Each compile_rule call
\* takes the next free RuleId before any of its children is compiled, so every
\* non-Noop rule's `id` is its own slot position (counted from 1), a rule's id
\* is smaller than the id of every rule compiled inside it (captures,
\* repository entries, patterns), the ids allocated in one rule's subtree form
\* a contiguous range, and for an include-only rule every rule of its own
\* repository has a smaller id than every rule compiled from its patterns.
\* Every RuleId, RegexId, PartialRegexId and RepositoryId stored in the output
\* is between 1 and the length of its arena.
RECURSIVE Sum(_, _)
Sum(f, S) ==
    IF S = {} THEN 0
    ELSE LET x == CHOOSE y \in S : TRUE IN f[x] + Sum(f, S \ {x})

RECURSIVE RuleCount(_)

\* the number of compile_rule calls a successful compile makes for a captures map
CapturesCount(captures) ==
    IF IsNone(captures) THEN 0
    ELSE Sum([k \in DOMAIN Unwrap(captures) |-> RuleCount(Unwrap(captures)[k])],
             DOMAIN Unwrap(captures))

\* ... for a pattern list: elements with include make no call
PatternsCount(patterns) ==
    IF IsNone(patterns) THEN 0
    ELSE Sum([j \in 1..Len(Unwrap(patterns)) |->
                 IF IsSome(Unwrap(patterns)[j].include) THEN 0
                 ELSE RuleCount(Unwrap(patterns)[j])],
             1..Len(Unwrap(patterns)))

\* ... for a repository block
RepositoryCount(repository) ==
    IF IsNone(repository) THEN 0
    ELSE Sum([n \in DOMAIN Unwrap(repository) |-> RuleCount(Unwrap(repository)[n])],
             DOMAIN Unwrap(repository))

\* ... for a rule, itself included
RuleCount(rule) ==
    1 + (IF IsSome(rule.match_) THEN CapturesCount(rule.captures)
         ELSE IF IsSome(rule.begin) THEN
             CapturesCount(rule.begin_captures)
                 + (IF IsSome(rule.while_) THEN CapturesCount(rule.while_captures)
                    ELSE CapturesCount(rule.end_captures))
                 + PatternsCount(rule.patterns)
         ELSE RepositoryCount(rule.repository) + PatternsCount(rule.patterns))

\* the ids of the subtree of rule i
Span(i) == i..(i + RuleCount(RawOf(i)) - 1)

\* the entries of the repository owned by rule i
OwnedEntryIds(i) ==
    UNION {EntryIds(p) : p \in {q \in 1..Len(repositories) : repo_calls[q].owner = i}}

StoredRegexIds(rule) ==
    CASE rule.tag = "MatchRule" -> {rule.match_}
      [] rule.tag \in {"BeginEndRule", "BeginWhileRule"} -> {rule.begin}
      [] OTHER -> {}

StoredPartialRegexIds(rule) ==
    CASE rule.tag = "BeginWhileRule" -> {rule.while_}
      [] rule.tag = "BeginEndRule" ->
            IF IsSome(rule.end) THEN {Unwrap(rule.end)} ELSE {}
      [] OTHER -> {}

C16_PreOrderIds ==
    /\ \A k \in 1..Len(frames) :
          (frames[k].fn = "compile_rule" /\ frames[k].pc = "body") =>
              /\ frames[k].new_id \in 1..Len(rules)
              /\ calls[frames[k].new_id].raw_rule = frames[k].raw_rule
              /\ \A n \in (k + 1)..Len(frames) :
                    (frames[n].fn = "compile_rule" /\ frames[n].pc = "body") =>
                        frames[k].new_id < frames[n].new_id
    /\ \A i \in 1..Len(rules) :
          IsSome(rules[i]) =>
              LET rule == Unwrap(rules[i])
              IN  /\ rule.tag # "NoopRule" => rule.id = i
                  /\ \A id \in ChildIds(rule) \cup OwnedEntryIds(i) :
                        /\ id \in 1..Len(rules)
                        /\ i < id
                  /\ \A entry \in OwnedEntryIds(i) :
                        \A id \in ChildIds(rule) : entry < id
                  /\ \A id \in StoredRegexIds(rule) : id \in 1..Len(regexes)
                  /\ \A id \in StoredPartialRegexIds(rule) :
                        id \in 1..Len(partial_regexes)
                  /\ rule.tag # "NoopRule" =>
                        \A n \in 1..rule.repository_stack.capacity :
                            Unwrap(rule.repository_stack.stack[n]) \in 1..Len(repositories)
    /\ \A p \in 1..Len(repositories) :
          \A id \in EntryIds(p) : id \in 1..Len(rules)
    /\ result.status = "Ok" =>
          /\ Span(1) = 1..Len(rules)
          /\ \A i \in 1..Len(rules) :
                /\ Span(i) \subseteq 1..Len(rules)
                /\ \A id \in ChildIds(Unwrap(rules[i])) \cup OwnedEntryIds(i) :
                      /\ Span(id) \subseteq Span(i) \ {i}
                      /\ \A other \in ChildIds(Unwrap(rules[i])) \cup OwnedEntryIds(i) :
                            other # id => Span(other) \cap Span(id) = {}

\* an include-only rule with an entry in its repository and a rule among its
\* patterns has compiled: the entry has the smaller id, and the subtree of the
\* pattern's rule is a range of more than one id
C16_Witness ==
    /\ result.status = "Ok"
    /\ \E i \in 1..Len(rules) :
          /\ Unwrap(rules[i]).tag = "IncludeOnlyRule"
          /\ \E entry \in OwnedEntryIds(i) :
                \E id \in ChildIds(Unwrap(rules[i])) :
                    /\ entry < id
                    /\ Cardinality(Span(id)) > 1
                    /\ Span(id) \subseteq Span(i)


\* C17: a nested repository is compiled only when its owning rule has neither
\* match nor begin.  A repository block attached to a rule classified as
\* MatchRule, BeginEndRule or BeginWhileRule adds no slot to the repositories
\* arena, none of its rules is compiled (no rule, regex or partial-regex slot
\* comes from it), it does not extend the stack of that rule's patterns or
\* captures, and it can never cause RepositoryStackOverflow however deeply it
\* is nested.  The number of slots in the repositories arena therefore equals
\* the number of repository blocks owned by include-only-shaped rules that
\* compile_rule reaches.
RECURSIVE LexicalDepth(_)

\* the deepest nesting of repository blocks as written, whoever owns them
LexicalDepth(rule) ==
    LET nested ==
            {0}
            \cup UNION {{LexicalDepth(Unwrap(rule[f])[k]) : k \in DOMAIN Unwrap(rule[f])} :
                    f \in {g \in {"captures", "begin_captures", "end_captures",
                                  "while_captures", "patterns"} : IsSome(rule[g])}}
        inside ==
            IF IsNone(rule.repository) THEN {}
            ELSE {1 + LexicalDepth(Unwrap(rule.repository)[n]) :
                     n \in DOMAIN Unwrap(rule.repository)} \cup {1}
    IN  Max(nested \cup inside)

OwnsIgnoredRepository(i) == ~IncludeOnlyShaped(RawOf(i)) /\ IsSome(RawOf(i).repository)

OpenedBlocks ==
    {i \in 1..Len(calls) : IncludeOnlyShaped(RawOf(i)) /\ IsSome(RawOf(i).repository)}

C17_IgnoredRepository ==
    /\ \A p \in 1..Len(repo_calls) :
          /\ repo_calls[p].owner \in OpenedBlocks
          /\ repo_calls[p].raw_repository = Unwrap(RawOf(repo_calls[p].owner).repository)
          /\ \A q \in 1..Len(repo_calls) :
                repo_calls[q].owner = repo_calls[p].owner => q = p
    /\ \A i \in 1..Len(rules) :
          (IsSome(rules[i]) /\ OwnsIgnoredRepository(i)) =>
              LET rule == Unwrap(rules[i])
              IN  /\ rule.tag \in {"MatchRule", "BeginEndRule", "BeginWhileRule"}
                  /\ rule.repository_stack = calls[i].repository_stack
                  /\ \A id \in ChildIds(rule) :
                        calls[id].repository_stack = calls[i].repository_stack
                  /\ OwnedEntryIds(i) = {}
    /\ GrammarDepth <= 4 => result # RepositoryStackOverflow
    /\ result.status = "Ok" =>
          /\ Len(repositories) = Cardinality(OpenedBlocks)
          /\ Len(rules) = RuleCount(root_rule(raw))
          /\ \A i \in 1..Len(rules) :
                OwnsIgnoredRepository(i) =>
                    Span(i) = {i} \cup UNION {Span(id) : id \in ChildIds(Unwrap(rules[i]))}
          /\ Len(regexes) = Cardinality({i \in 1..Len(calls) : ~IncludeOnlyShaped(RawOf(i))})
          /\ Len(partial_regexes) =
                 Cardinality({i \in 1..Len(calls) :
                                 /\ IsNone(RawOf(i).match_) /\ IsSome(RawOf(i).begin)
                                 /\ (IsSome(RawOf(i).while_) \/ IsSome(RawOf(i).end))})

\* a grammar whose repository blocks are nested five deep, each owned by a
\* match rule, has compiled to the root rule and one match rule, with one regex
\* and no repository
C17_Witness ==
    /\ result.status = "Ok"
    /\ LexicalDepth(root_rule(raw)) = 5
    /\ GrammarDepth = 0
    /\ Len(rules) = 2
    /\ OwnsIgnoredRepository(2)
    /\ Unwrap(rules[2]).tag = "MatchRule"
    /\ Len(regexes) = 1
    /\ repositories = <<>>

\* a begin rule that owns a repository block and has a pattern has compiled
\* below an opened block: the pattern's rule stores the same one-entry stack
C17_WitnessBegin ==
    /\ result.status = "Ok"
    /\ \E i \in 1..Len(rules) :
          /\ OwnsIgnoredRepository(i)
          /\ Unwrap(rules[i]).tag \in {"BeginEndRule", "BeginWhileRule"}
          /\ ChildIds(Unwrap(rules[i])) # {}
          /\ Unwrap(rules[i]).repository_stack.capacity = 1
          /\ Len(repositories) = 1

====
